---- MODULE Spec2Model ----
(***************************************************************************)
(* OpenCue backend: the sync session manager (backend/sync_session.py),    *)
(* the websocket message handler (backend/websocket_server.py), the        *)
(* subtitle-text sync engine (backend/subtitle_sync.py) and the realtime   *)
(* overlay engine (backend/overlay_engine.py), modelled for one connected  *)
(* client.  Times are integer milliseconds, confidences are hundredths.    *)
(* Texts are sequences of one-character strings.                           *)
(***************************************************************************)
EXTENDS Integers, Sequences, FiniteSets, TLC

\* ------------------------------------------------------------------ bounds
MaxTasks == 2
MaxEngines == 1
MaxRecorded == 2
MaxAdvance == 10
MaxRecordings == 2
MaxChunks == 1
MaxProduced == 102

\* ------------------------------------------------------- program constants
SUBTITLE_DEDUP_WINDOW_MS == 300
RING_SIZE == 10
LOOKAHEAD_MS == 500
SEARCH_WINDOW_MS == 120000
SYNCED_WINDOW_MS == 10000
MIN_SUBTITLE_LENGTH == 8
REQUIRED_MATCHES == 1
HISTORY_SIZE == 10
OFFSET_TOLERANCE_MS == 2000
MUTE_PADDING_BEFORE_MS == 400
MUTE_PADDING_AFTER_MS == 150
MIN_MUTE_DURATION_MS == 400
MIN_RECORDED_SUBTITLE_LEN == 10
QUEUE_MAXSIZE == 100
MATCH_WINDOW_MS == 100
RECORDED_SUBTITLE_WINDOW_MS == 1000

None == "None"

\* ------------------------------------------------------------ text helpers
UpperCase == <<"A","B","C","D","E","F","G","H","I","J","K","L","M",
               "N","O","P","Q","R","S","T","U","V","W","X","Y","Z">>
LowerCase == <<"a","b","c","d","e","f","g","h","i","j","k","l","m",
               "n","o","p","q","r","s","t","u","v","w","x","y","z">>
Digits == {"0","1","2","3","4","5","6","7","8","9"}

Range(s) == {s[i] : i \in 1..Len(s)}

\* str.lower() on one character
LowerChar(c) ==
    IF \E i \in 1..26 : UpperCase[i] = c
    THEN LowerCase[CHOOSE i \in 1..26 : UpperCase[i] = c]
    ELSE c

\* str.lower()
Lower(text) == [i \in 1..Len(text) |-> LowerChar(text[i])]

\* regex class \w
IsWordChar(c) == c \in Range(UpperCase) \cup Range(LowerCase) \cup Digits \cup {"_"}

\* regex class \s
IsSpace(c) == c \in {" ", "\t", "\n"}

\* str.strip()
RECURSIVE LStrip(_)
LStrip(text) ==
    IF text # <<>> /\ IsSpace(Head(text)) THEN LStrip(Tail(text)) ELSE text

RECURSIVE RStrip(_)
RStrip(text) ==
    IF text # <<>> /\ IsSpace(text[Len(text)])
    THEN RStrip(SubSeq(text, 1, Len(text) - 1)) ELSE text

Strip(text) == RStrip(LStrip(text))

\* str.split(): the maximal runs of non-whitespace characters, in order
RECURSIVE SplitFrom(_, _, _)
SplitFrom(text, i, cur) ==
    IF i > Len(text)
    THEN (IF cur = <<>> THEN <<>> ELSE <<cur>>)
    ELSE IF IsSpace(text[i])
         THEN (IF cur = <<>> THEN <<>> ELSE <<cur>>) \o SplitFrom(text, i + 1, <<>>)
         ELSE SplitFrom(text, i + 1, Append(cur, text[i]))

Split(text) == SplitFrom(text, 1, <<>>)

\* " ".join(words)
RECURSIVE Join(_)
Join(words) ==
    IF words = <<>> THEN <<>>
    ELSE IF Len(words) = 1 THEN words[1]
    ELSE words[1] \o <<" ">> \o Join(Tail(words))

\* re.sub(r"[^\w\s']", "", text)
StripPunct(text) == SelectSeq(text, LAMBDA c : IsWordChar(c) \/ IsSpace(c) \/ c = "'")

\* SubtitleSyncEngine._normalize_text
_normalize_text(text) == Join(Split(StripPunct(Lower(text))))

\* `needle in haystack` for strings
Contains(haystack, needle) ==
    \E i \in 1..(Len(haystack) - Len(needle) + 1) :
        SubSeq(haystack, i, i + Len(needle) - 1) = needle

Max(a, b) == IF a >= b THEN a ELSE b
Min(a, b) == IF a <= b THEN a ELSE b
Abs(a) == IF a >= 0 THEN a ELSE -a


\* int(x) of Python for the quotient a / b, b > 0: truncation toward zero
Trunc(a, b) == IF a >= 0 THEN a \div b ELSE -((-a) \div b)

RECURSIVE Sum(_)
Sum(s) == IF s = <<>> THEN 0 ELSE Head(s) + Sum(Tail(s))

\* sorted(list)
RECURSIVE Insert(_, _)
Insert(x, s) ==
    IF s = <<>> THEN <<x>>
    ELSE IF x < Head(s) THEN <<x>> \o s
    ELSE <<Head(s)>> \o Insert(x, Tail(s))

RECURSIVE Sorted(_)
Sorted(s) == IF s = <<>> THEN <<>> ELSE Insert(s[Len(s)], Sorted(SubSeq(s, 1, Len(s) - 1)))

\* list[-n:] for n >= 1
LastN(s, n) == IF Len(s) <= n THEN s ELSE SubSeq(s, Len(s) - n + 1, Len(s))

\* ------------------------------------------------------------ sample texts
TxtFuck == <<"W","h","a","t"," ","t","h","e"," ","f","u","c","k"," ","i","s"," ","g","o","i","n","g"," ","o","n","?">>
TxtHelloLive == <<"H","E","L","L","O",","," ","w","o","r","l","d","."," ","H","o","w"," ","A","R","E"," ","y","o","u","!">>
TxtHelloMarker == <<"h","e","l","l","o"," ","w","o","r","l","d"," ","h","o","w"," ","a","r","e"," ","y","o","u">>
TxtMorning == <<"G","o","o","d"," ","m","o","r","n","i","n","g">>
TxtShort == <<"H","e","y","!">>
TxtPunct == <<".",".",".",".",".",".",".",".","!">>
TxtHelloThree == <<"h","e","l","l","o"," ","w","o","r","l","d"," ","h","o","w">>
WordFuck == <<"f","u","c","k">>

\* SubtitleSyncEngine._normalize_text over the sample texts, computed once
Normalized == [t \in {TxtFuck, TxtHelloLive, TxtHelloMarker, TxtMorning, TxtShort, TxtPunct,
                       TxtHelloThree}
                  |-> _normalize_text(t)]

NormalizeText(text) ==
    IF text \in DOMAIN Normalized THEN Normalized[text] ELSE _normalize_text(text)

\* --------------------------------------------- profanity/detector.py (lexicon)
\* One compiled pattern per lexicon word: \bword(?:'|in'?|er|ers|ed|ing)?\b,
\* case-insensitive.  The word list file is data; the model's list has one
\* entry, taken from scenario S1, with context_required false.
Patterns == << [word |-> WordFuck, category |-> "language.profanity.severe",
                context_required |-> FALSE] >>

EndsWith(w, suf) == Len(w) >= Len(suf) /\ SubSeq(w, Len(w) - Len(suf) + 1, Len(w)) = suf

HasOwnSuffix(w) ==
    \E suf \in { <<"i","n","g">>, <<"i","n">>, <<"e","r">>, <<"e","r","s">>, <<"e","d">> } :
        EndsWith(Lower(w), suf)

\* the alternatives the regex tries after the word, in backtracking order
Suffixes(w) ==
    IF HasOwnSuffix(w) THEN << <<"'">>, <<>> >>
    ELSE << <<"'">>, <<"i","n","'">>, <<"i","n">>, <<"e","r">>, <<"e","r","s">>,
            <<"e","d">>, <<"i","n","g">>, <<>> >>

WordAt(text, i) == i >= 1 /\ i <= Len(text) /\ IsWordChar(text[i])

\* regex \b between text[i-1] and text[i] (1-based)
Boundary(text, i) == WordAt(text, i - 1) # WordAt(text, i)

LiteralAt(text, i, lit) ==
    /\ i + Len(lit) - 1 <= Len(text)
    /\ Lower(SubSeq(text, i, i + Len(lit) - 1)) = Lower(lit)

\* the first index after a match of the pattern for w that starts at i, or 0
MatchEnd(text, i, w) ==
    IF ~(Boundary(text, i) /\ LiteralAt(text, i, w)) THEN 0
    ELSE LET sufs == Suffixes(w)
             ok(k) == /\ LiteralAt(text, i + Len(w), sufs[k])
                      /\ Boundary(text, i + Len(w) + Len(sufs[k]))
         IN IF \E k \in 1..Len(sufs) : ok(k)
            THEN LET k == CHOOSE k \in 1..Len(sufs) :
                              ok(k) /\ \A j \in 1..(k - 1) : ~ok(j)
                 IN i + Len(w) + Len(sufs[k])
            ELSE 0

\* pattern.finditer(text): non-overlapping matches, left to right, as
\* <<start, end>> with 1-based start and exclusive end
RECURSIVE FindIter(_, _, _)
FindIter(text, i, w) ==
    IF i > Len(text) THEN <<>>
    ELSE LET e == MatchEnd(text, i, w)
         IN IF e = 0 THEN FindIter(text, i + 1, w)
            ELSE << <<i, e>> >> \o FindIter(text, e, w)

\* detect_profanity: every pattern in order, skipping a matched string that
\* was already seen; char_start/char_end are the 0-based Python positions
RECURSIVE DetectFrom(_, _, _, _)
DetectFrom(text, p, ms, seen) ==
    IF p > Len(Patterns) THEN <<>>
    ELSE IF ms = <<>> THEN
        (IF p + 1 > Len(Patterns) THEN <<>>
         ELSE DetectFrom(text, p + 1, FindIter(text, 1, Patterns[p + 1].word), seen))
    ELSE LET m == Head(ms)
             key == Lower(SubSeq(text, m[1], m[2] - 1))
         IN IF key \in seen THEN DetectFrom(text, p, Tail(ms), seen)
            ELSE << [word |-> Patterns[p].word,
                     matched |-> SubSeq(text, m[1], m[2] - 1),
                     category |-> Patterns[p].category,
                     confidence |-> IF Patterns[p].context_required THEN 75 ELSE 95,
                     char_start |-> m[1] - 1,
                     char_end |-> m[2] - 1] >>
                 \o DetectFrom(text, p, Tail(ms), seen \cup {key})

detect_profanity(text) ==
    IF Len(Patterns) = 0 THEN <<>>
    ELSE DetectFrom(text, 1, FindIter(text, 1, Patterns[1].word), {})

\* overlay_engine.process_subtitle: one overlay command per detection, with
\* the word's interval estimated from its character span in the subtitle
OverlayCommand(det, text, start_ms, end_ms) ==
    LET subtitle_duration == end_ms - start_ms
        word_start == start_ms + Trunc(subtitle_duration * det.char_start, Len(text))
        word_end == start_ms + Trunc(subtitle_duration * det.char_end, Len(text))
        overlay_start == Max(0, word_start - MUTE_PADDING_BEFORE_MS)
        overlay_end == word_end + MUTE_PADDING_AFTER_MS
        center == (word_start + word_end) \div 2
        tooShort == overlay_end - overlay_start < MIN_MUTE_DURATION_MS
    IN [cue_id |-> "cue_uuid",
        action |-> "mute",
        start_ms |-> IF tooShort THEN Max(0, center - MIN_MUTE_DURATION_MS \div 2)
                     ELSE overlay_start,
        end_ms |-> IF tooShort THEN center + MIN_MUTE_DURATION_MS \div 2
                   ELSE overlay_end,
        category |-> det.category,
        confidence |-> det.confidence,
        matched |-> det.matched]

\* detect_profanity over the sample texts, computed once
SampleTexts == {TxtFuck, TxtHelloLive, TxtHelloMarker, TxtMorning, TxtShort, TxtPunct}
Detections == [t \in SampleTexts |-> detect_profanity(t)]

process_subtitle(text, start_ms, end_ms) ==
    IF text = <<>> \/ Strip(text) = <<>> THEN <<>>
    ELSE LET dets == IF text \in SampleTexts THEN Detections[text]
                     ELSE detect_profanity(text)
         IN [i \in 1..Len(dets) |-> OverlayCommand(dets[i], text, start_ms, end_ms)]


\* ------------------------------------------------------- cue file catalogue
Cue(id, s, e, w) == [id |-> id, start_ms |-> s, end_ms |-> e, word |-> w, action |-> "mute"]

\* The cue files of the catalogue directory.  "s3" is the file of scenario
\* S3, "two" reuses the id cue_0001 for another interval and has a cue that
\* starts at 0, "subs" carries the subtitle marker of scenario S4, "fp" has
\* fingerprint markers, "noword" has the marker of "subs" and a cue without a
\* word.
Catalogue ==
    [s3   |-> [cues |-> << Cue("cue_0001", 3000, 4000, WordFuck) >>,
               subtitles |-> <<>>, has_markers |-> FALSE, found |-> TRUE],
     two  |-> [cues |-> << Cue("cue_0001", 0, 3000, WordFuck),
                           Cue("cue_0002", 3000, 4000, WordFuck) >>,
               subtitles |-> <<>>, has_markers |-> FALSE, found |-> TRUE],
     subs |-> [cues |-> << Cue("cue_0001", 3000, 4000, WordFuck) >>,
               subtitles |-> << [time_ms |-> 60000, text |-> TxtHelloMarker] >>,
               has_markers |-> FALSE, found |-> TRUE],
     fp   |-> [cues |-> << Cue("cue_0001", 3000, 4000, WordFuck) >>,
               subtitles |-> <<>>, has_markers |-> TRUE, found |-> TRUE],
     late |-> [cues |-> << Cue("cue_0002", 5000, 6000, WordFuck) >>,
               subtitles |-> <<>>, has_markers |-> FALSE, found |-> TRUE],
     noword |-> [cues |-> << Cue("cue_0001", 59000, 60000, <<>>) >>,
                 subtitles |-> << [time_ms |-> 60000, text |-> TxtHelloMarker] >>,
                 has_markers |-> FALSE, found |-> TRUE]]

CueIds == {"cue_0001", "cue_0002"}

\* the value of SessionManager._load_cue_file when no file is found
NoCueData == [cues |-> <<>>, subtitles |-> <<>>, has_markers |-> FALSE, found |-> FALSE]

\* ------------------------------------------------ subtitle_sync.py (engine)
\* the value of SyncSession.subtitle_sync_engine when it is None
NoSubtitleEngine ==
    [file |-> None, synced |-> FALSE, offset_ms |-> 0, confidence |-> 0,
     has_last_match |-> FALSE, match_history |-> <<>>]

\* SubtitleSyncEngine.__init__
NewSubtitleSyncEngine(file) ==
    [file |-> file, synced |-> FALSE, offset_ms |-> 0, confidence |-> 0,
     has_last_match |-> FALSE, match_history |-> <<>>]

\* SubtitleSyncEngine._text_similarity as the fraction <<|A & B|, |A | B|>>;
\* <<0, 1>> stands for 0.0
Jaccard(words1, words2) ==
    IF words1 = {} \/ words2 = {} THEN <<0, 1>>
    ELSE <<Cardinality(words1 \cap words2), Cardinality(words1 \cup words2)>>

TextSimilarity(text1, text2) ==
    IF text1 = <<>> \/ text2 = <<>> THEN <<0, 1>>
    ELSE Jaccard(Range(Split(text1)), Range(Split(text2)))

\* a > b for fractions with positive denominators
FracGT(a, b) == a[1] * b[2] > b[1] * a[2]

Threshold == <<6, 10>>
CueWordScore == <<7, 10>>

NoMatch == [found |-> FALSE, time_ms |-> 0, text |-> <<>>, score |-> <<0, 1>>]

\* one marker of the loop over the subtitle markers: the best match after it
ScanSubtitle(sub, score, window_start, window_end, best) ==
    IF /\ window_start <= sub.time_ms
       /\ sub.time_ms <= window_end
       /\ FracGT(score, best.score)
       /\ FracGT(score, Threshold)
    THEN [found |-> TRUE, time_ms |-> sub.time_ms, text |-> sub.text, score |-> score]
    ELSE best

\* the loop over the subtitle markers of _find_subtitle_match
RECURSIVE ScanSubtitles(_, _, _, _, _)
ScanSubtitles(subs, normalized, window_start, window_end, best) ==
    IF subs = <<>> THEN best
    ELSE ScanSubtitles(Tail(subs), normalized, window_start, window_end,
             ScanSubtitle(Head(subs),
                          TextSimilarity(normalized, NormalizeText(Head(subs).text)),
                          window_start, window_end, best))

\* a backup loop that takes a cue without a word for a match
HasWord_Always(cue_word) == TRUE

\* the backup loop over the cue words of _find_subtitle_match: the test
\* "if cue_word"
HasWord(cue_word) == cue_word # <<>>

\* one cue of the backup loop: the best match after it
ScanCue(cue, cue_word, normalized, window_start, window_end, best) ==
    IF /\ window_start <= cue.start_ms
       /\ cue.start_ms <= window_end
       /\ HasWord(cue_word)
       /\ Contains(normalized, cue_word)
       /\ (~best.found \/ FracGT(CueWordScore, best.score))
    THEN [found |-> TRUE, time_ms |-> cue.start_ms, text |-> cue_word,
          score |-> CueWordScore]
    ELSE best

RECURSIVE ScanCues(_, _, _, _, _)
ScanCues(cues, normalized, window_start, window_end, best) ==
    IF cues = <<>> THEN best
    ELSE ScanCues(Tail(cues), normalized, window_start, window_end,
             ScanCue(Head(cues), Lower(Head(cues).word), normalized,
                     window_start, window_end, best))

\* SubtitleSyncEngine._find_subtitle_match
\* the search of _find_subtitle_match inside a window: the markers, then the
\* cue words when no marker matched
MatchAfterSubtitles(bySub, cues, normalized, window_start, window_end) ==
    IF bySub.found THEN bySub
    ELSE ScanCues(cues, normalized, window_start, window_end, bySub)

MatchInWindow(file, normalized, window_start, window_end) ==
    MatchAfterSubtitles(ScanSubtitles(Catalogue[file].subtitles, normalized,
                                      window_start, window_end, NoMatch),
                        Catalogue[file].cues, normalized, window_start, window_end)

_find_subtitle_match(eng, normalized, video_time_ms) ==
    IF eng.synced
    THEN MatchInWindow(eng.file, normalized,
                       video_time_ms + eng.offset_ms - SYNCED_WINDOW_MS,
                       video_time_ms + eng.offset_ms + SYNCED_WINDOW_MS)
    ELSE MatchInWindow(eng.file, normalized,
                       Max(0, video_time_ms - SEARCH_WINDOW_MS),
                       video_time_ms + SEARCH_WINDOW_MS)

\* SubtitleSyncEngine._is_offset_consistent
_is_offset_consistent(history) ==
    IF Len(history) < REQUIRED_MATCHES THEN FALSE
    ELSE LET recent == LastN(history, REQUIRED_MATCHES)
             n == Len(recent)
         IN \A i \in 1..n : Abs(recent[i] * n - Sum(recent)) <= OFFSET_TOLERANCE_MS * n

\* SubtitleSyncEngine._calculate_stable_offset
_calculate_stable_offset(history) ==
    IF history = <<>> THEN 0
    ELSE LET sorted_offsets == Sorted(LastN(history, 5))
         IN sorted_offsets[(Len(sorted_offsets) \div 2) + 1]

\* the SyncResult of process_subtitle for an engine state
SyncResult(eng, method) ==
    [synced |-> eng.synced, offset_ms |-> eng.offset_ms,
     confidence |-> eng.confidence, method |-> method]

\* match_history.append(new_offset) and the pop(0) above ten entries
HistoryAppend(history, new_offset) ==
    IF Len(history) + 1 > HISTORY_SIZE THEN Tail(Append(history, new_offset))
    ELSE Append(history, new_offset)

\* process_subtitle, the branch of a match whose offset is consistent
MatchConsistent(e2) == [eng |-> e2, result |-> SyncResult(e2, "subtitle_match")]

\* process_subtitle, the branch of a match
MatchFound(eng, new_offset, history) ==
    IF _is_offset_consistent(history)
    THEN MatchConsistent([eng EXCEPT !.match_history = history,
                                     !.synced = TRUE,
                                     !.offset_ms = _calculate_stable_offset(history),
                                     !.confidence = Min(95, 50 + Len(history) * 10),
                                     !.has_last_match = TRUE])
    ELSE [eng |-> [eng EXCEPT !.match_history = history],
          result |-> [synced |-> FALSE, offset_ms |-> new_offset,
                      confidence |-> 30, method |-> "pending_confirmation"]]

\* process_subtitle, the branch without a match
MatchMissing(e2) == [eng |-> e2, result |-> SyncResult(e2, "no_match")]

\* a loss of confidence without the floor
Decay_NoFloor(confidence) == confidence - 10

\* process_subtitle without a match for more than 30 s: the new confidence
Decay(confidence) == Max(30, confidence - 10)

\* process_subtitle after the search
MatchResult(eng, match, video_time_ms, stale) ==
    IF match.found
    THEN MatchFound(eng, match.time_ms - video_time_ms,
                    HistoryAppend(eng.match_history, match.time_ms - video_time_ms))
    ELSE IF eng.synced /\ eng.has_last_match /\ stale
    THEN MatchMissing([eng EXCEPT !.confidence = Decay(eng.confidence)])
    ELSE MatchMissing(eng)

\* SubtitleSyncEngine.process_subtitle: the engine after the call and the
\* SyncResult it returns.  stale says whether more than 30 s of wall time
\* have passed since the last match.
process_subtitle_sync(eng, text, video_time_ms, stale) ==
    IF text = <<>> \/ Len(text) < MIN_SUBTITLE_LENGTH
    THEN [eng |-> eng, result |-> SyncResult(eng, "skipped")]
    ELSE MatchResult(eng, _find_subtitle_match(eng, NormalizeText(text), video_time_ms),
                     video_time_ms, stale)


\* ------------------------------------------------------------------- state
VARIABLES
    connected,                   \* the client's websocket is open and its session is in the table
    mode,                        \* SyncSession.mode
    cue_file_id,                 \* SyncSession.cue_file_id
    content_id,                  \* SyncSession.content_id
    synced,                      \* SyncSession.synced
    sync_offset_ms,              \* SyncSession.sync_offset_ms
    last_position_ms,            \* SyncSession.last_position_ms
    triggered_cues,              \* SyncSession.triggered_cues: set of cue ids
    active_cues,                 \* SyncSession.active_cues: the cue records, one per id
    sync_engine,                 \* SyncSession.sync_engine: index into engines, 0 for None
    engines,                     \* every audio SyncEngine constructed so far
    stop_pending,                \* a _stop_sync_engine task created by remove_session
    subtitle_sync_engine,        \* SyncSession.subtitle_sync_engine, or NoSubtitleEngine
    tasks,                       \* the _check_cues_by_position tasks not yet finished
    last_subtitles,              \* session._last_subtitles: the dedup ring
    recording,                   \* SyncSession.recording
    recording_start_position_ms, \* SyncSession.recording_start_position_ms
    recorded_cues,               \* SyncSession.recorded_cues
    recorded_subtitles,          \* SyncSession.recorded_subtitles
    recording_title,             \* SyncSession.recording_title
    temp_files,                  \* the .<title>_recording.tmp files in the cue directory
    cue_dir,                     \* the .opencue files written by stopRecording
    appended,                    \* history: the cues and subtitle markers appended to the
                                 \*          recording since the latest startRecording
                                 \*          (none after an abort)
    recorder,                    \* the PrecisionRecorder singleton
    prec_files,                  \* the files written by the precision recorder
    sent,                        \* the messages the last step sent to the client
    dispatched,                  \* history: cues with an overlay start sent and no cueEnd since
    staleTriggered,              \* history: the triggered ids that were triggered by a
                                 \*          task that was already iterating a cue list
                                 \*          when the latest cue file load happened
    capture,                     \* one AudioCapture: its fields, its capture thread, the
                                 \*          chunks its backpressure discarded (history), the
                                 \*          position of the recorder's collector thread that
                                 \*          consumes it, and the last chunk that was queued
                                 \*          when the recorder's stop was called (history)
    advisor,                     \* one detection on its way through the advisor: the
                                 \*          inputs and, once processed, the outcome
    catalogue,                   \* the CueManager: the cue directory, its cache and
                                 \*          index, the last call and what it returned, and
                                 \*          the data last written per file (history)
    timing,                      \* one detection on its way through the timing of
                                 \*          overlay_engine.process_subtitle: the subtitle
                                 \*          interval, the detected span and, once
                                 \*          computed, the overlay interval
    matcher                      \* one call on an audio matcher (FingerprintMatcher.match
                                 \*          or MicrosignatureMatcher._score_alignment): its
                                 \*          arguments and, once it returned, the result

sessionVars == <<mode, cue_file_id, content_id, synced, sync_offset_ms, last_position_ms>>
cueVars == <<triggered_cues, active_cues, tasks, dispatched, staleTriggered>>
engineVars == <<sync_engine, engines, stop_pending, subtitle_sync_engine>>
recVars == <<recording, recording_start_position_ms, recorded_cues, recorded_subtitles,
             recording_title, temp_files, cue_dir, appended>>
precVars == <<recorder, prec_files>>
svcVars == <<capture, advisor, catalogue, timing, matcher>>

vars == <<connected, mode, cue_file_id, content_id, synced, sync_offset_ms,
          last_position_ms, triggered_cues, active_cues, sync_engine, engines,
          stop_pending, subtitle_sync_engine, tasks, last_subtitles, recording,
          recording_start_position_ms, recorded_cues, recorded_subtitles,
          recording_title, temp_files, cue_dir, appended, recorder, prec_files,
          sent, dispatched, staleTriggered, capture, advisor, catalogue, timing,
          matcher>>

\* SyncSession defaults after create_session, an idle precision recorder
InitSession ==
    /\ connected = TRUE
    /\ mode = "realtime"
    /\ cue_file_id = None
    /\ content_id = None
    /\ synced = FALSE
    /\ sync_offset_ms = 0
    /\ last_position_ms = 0
    /\ triggered_cues = {}
    /\ active_cues = {}
    /\ sync_engine = 0
    /\ engines = <<>>
    /\ stop_pending = FALSE
    /\ subtitle_sync_engine = NoSubtitleEngine
    /\ tasks = <<>>
    /\ last_subtitles = <<>>
    /\ recording = FALSE
    /\ recording_start_position_ms = 0
    /\ recorded_cues = <<>>
    /\ recorded_subtitles = <<>>
    /\ recording_title = <<>>
    /\ temp_files = {}
    /\ cue_dir = {}
    /\ appended = [cues |-> <<>>, subtitles |-> <<>>]
    /\ recorder = [recordings |-> <<>>, active |-> 0, capture |-> None, collector |-> 0,
                   volume_recorder |-> FALSE, captures |-> 0]
    /\ prec_files = {}
    /\ sent = <<>>
    /\ dispatched = {}
    /\ staleTriggered = {}

\* AudioCapture.__init__
NewCapture ==
    [running |-> FALSE, active_mode |-> None, backend |-> None, thread |-> "none",
     data |-> 0, queue |-> <<>>, produced |-> 0, dropped |-> {}, stop |-> "idle",
     collector |-> "none", enqueued_at_stop |-> 0]

\* the file stems used with the catalogue manager, the absence of data and
\* a file that does not exist
Stems == {"movie", "show"}
NoData == [version |-> "", title |-> "", cues |-> <<>>]
NoFile == [members |-> <<>>]

\* CueManager.__init__ on an empty cue directory
NewCueManager ==
    [files |-> [n \in Stems |-> NoFile], cache |-> [n \in Stems |-> NoData], index |-> {},
     written |-> [n \in Stems |-> NoData], op |-> "init", name |-> "", result |-> NoData]

\* no detection under way
\* no call on a matcher
NoCall == [op |-> "none", done |-> TRUE]

\* no detection is being timed
NoTiming ==
    [start_ms |-> 0, end_ms |-> 0, char_start |-> 0, char_end |-> 0, text_len |-> 1,
     done |-> TRUE, overlay |-> [start_ms |-> 0, end_ms |-> 0]]

NoDetection ==
    [text |-> <<>>, category |-> "language.profanity.severe", llm_available |-> FALSE,
     ollama_ok |-> FALSE, reply |-> [outcome |-> "error", text |-> <<>>], done |-> TRUE,
     emitted |-> FALSE, confidence |-> 0]

Init ==
    /\ InitSession
    /\ capture = NewCapture
    /\ advisor = NoDetection
    /\ catalogue = NewCueManager
    /\ timing = NoTiming
    /\ matcher = NoCall

\* the identifier (file stem) of the cue file that _save_cue_file writes for
\* the title recorded here
RecordedCueFileId == "Movie 1"

\* the ids f"cue_{i+1:04d}" that _generate_cue_file writes
CueName == <<"cue_0001", "cue_0002">>

\* a cue file of the precision recorder as json.load returns it: the cues
\* with the keys they were written with, no subtitles and no fingerprints
ReadRecordedFile(f) ==
    [cues |-> [i \in 1..Len(f.cues) |-> [f.cues[i] EXCEPT !.id = CueName[@]]],
     subtitles |-> <<>>, has_markers |-> FALSE, found |-> TRUE]

\* SessionManager._load_cue_file: the parsed file of the catalogue or of the
\* precision recorder (one title is recorded here), or NoCueData
_load_cue_file(identifier) ==
    IF identifier \in DOMAIN Catalogue THEN Catalogue[identifier]
    ELSE IF identifier = RecordedCueFileId /\ \E f \in prec_files : f.kind = "opencue"
    THEN ReadRecordedFile(CHOOSE f \in prec_files : f.kind = "opencue")
    ELSE NoCueData

\* ---------------------------------------------------------------- messages
Msg(type) == [type |-> type, cue_id |-> "", state |-> "", mode |-> "", offset_ms |-> 0,
              confidence |-> 0, success |-> TRUE, start_ms |-> 0, end_ms |-> 0]

\* SessionManager._send_sync_state
SyncStateMsg(state, syncMode, offset, confidence) ==
    [Msg("syncState") EXCEPT !.state = state, !.mode = syncMode,
                             !.offset_ms = offset, !.confidence = confidence]

\* SessionManager._send_cue_command: the message is built, which raises
\* KeyError for a start of a cue without the key "action", and is sent on an
\* open websocket; the exception is caught and logged
CueCommandSent(cue, event) ==
    connected /\ (event = "start" => "action" \in DOMAIN cue)

\* SessionManager._send_cue_command: the overlay or cueEnd message of a cue
CueCommandMsg(cue, event) ==
    IF event = "start"
    THEN [Msg("overlay") EXCEPT !.cue_id = cue.id, !.start_ms = cue.start_ms,
                                !.end_ms = cue.end_ms, !.mode = "cue_file"]
    ELSE [Msg("cueEnd") EXCEPT !.cue_id = cue.id]

\* SessionManager._handle_cue_event: the cue message of the audio sync engine
CueEventMsg(cue, event) ==
    [Msg("cue") EXCEPT !.cue_id = cue.id, !.state = event,
                       !.start_ms = cue.start_ms, !.end_ms = cue.end_ms]

\* websocket_server.send_overlay_command: the overlay message of a realtime command
OverlayMsg(command) ==
    [Msg("overlay") EXCEPT !.cue_id = command.cue_id, !.start_ms = command.start_ms,
                           !.end_ms = command.end_ms, !.mode = "realtime"]

Reply(type, success) == [Msg(type) EXCEPT !.success = success]

ActiveIds(active) == {a.id : a \in active}

\* dict assignment active_cues[cue_id] = cue
ActivePut(active, cue) == {a \in active : a.id # cue.id} \cup {cue}

\* del active_cues[cue_id]
ActiveDel(active, id) == {a \in active : a.id # id}

RemoveAt(s, k) == SubSeq(s, 1, k - 1) \o SubSeq(s, k + 1, Len(s))


\* ----------------------------------------- cue evaluation by position (tasks)
\* a start condition that forgets the triggered set
ShouldStart_IgnoreTriggered(cue, position_ms, triggered) ==
    /\ cue.start_ms <= position_ms + LOOKAHEAD_MS
    /\ position_ms < cue.end_ms

\* _check_cues_by_position, the start condition of one cue
ShouldStart(cue, position_ms, triggered) ==
    /\ cue.id \notin triggered
    /\ cue.start_ms <= position_ms + LOOKAHEAD_MS
    /\ position_ms < cue.end_ms

\* an end condition that compares the position with the cue's start
ShouldEnd_AtStart(cue, position_ms, triggered, active) ==
    /\ cue.id \in triggered
    /\ cue.id \in {a.id : a \in active}
    /\ position_ms >= cue.start_ms

\* _check_cues_by_position, the end condition of one cue (the elif branch)
ShouldEnd(cue, position_ms, triggered, active) ==
    /\ ~ShouldStart(cue, position_ms, triggered)
    /\ cue.id \in ActiveIds(active)
    /\ position_ms >= cue.end_ms

\* the first cue at index >= i that takes one of the two branches, or 0: the
\* loop runs without suspending over the cues that take neither
NextFiring(cues, i, position_ms, triggered, active) ==
    LET fires(j) == \/ ShouldStart(cues[j], position_ms, triggered)
                    \/ ShouldEnd(cues[j], position_ms, triggered, active)
    IN IF \E j \in i..Len(cues) : fires(j)
       THEN CHOOSE j \in i..Len(cues) : fires(j) /\ \A h \in i..(j - 1) : ~fires(h)
       ELSE 0

\* update_position: the task it creates (the effective position is fixed at
\* creation, the cue file is read when the task first runs)
NewTask(position_ms) ==
    [position_ms |-> IF subtitle_sync_engine # NoSubtitleEngine /\ synced
                     THEN position_ms + subtitle_sync_engine.offset_ms
                     ELSE position_ms,
     next |-> 0, file |-> None, fresh |-> TRUE]

\* SessionManager.update_position
update_position(position_ms) ==
    /\ last_position_ms' = position_ms
    /\ IF mode \in {"cue_file", "hybrid"}
       THEN /\ Len(tasks) < MaxTasks
            /\ tasks' = Append(tasks, NewTask(position_ms))
       ELSE tasks' = tasks

\* One run of a _check_cues_by_position task: from its start, or from the
\* websocket send it was suspended in, up to and including its next send (or
\* to its end).  Tasks start in creation order; suspended tasks resume in any
\* order.  A send on a closed websocket raises and is logged.
CheckCuesStep(k) ==
    LET task == tasks[k]
        starting == task.next = 0
        file == IF starting THEN cue_file_id ELSE task.file
        cue_data == _load_cue_file(file)
    IN
    /\ starting => \A h \in 1..(k - 1) : tasks[h].next # 0
    /\ IF file = None \/ ~cue_data.found
       THEN /\ tasks' = RemoveAt(tasks, k)
            /\ sent' = <<>>
            /\ UNCHANGED <<triggered_cues, active_cues, dispatched, staleTriggered>>
       ELSE
       LET cues == cue_data.cues
           j == NextFiring(cues, IF starting THEN 1 ELSE task.next,
                           task.position_ms, triggered_cues, active_cues)
       IN IF j = 0
          THEN /\ tasks' = RemoveAt(tasks, k)
               /\ sent' = <<>>
               /\ UNCHANGED <<triggered_cues, active_cues, dispatched, staleTriggered>>
          ELSE
          LET cue == cues[j]
              start == ShouldStart(cue, task.position_ms, triggered_cues)
          IN /\ tasks' = [tasks EXCEPT ![k] = [@ EXCEPT !.next = j + 1, !.file = file]]
             /\ IF start
                THEN /\ triggered_cues' = triggered_cues \cup {cue.id}
                     /\ active_cues' = ActivePut(active_cues, cue)
                     /\ staleTriggered' = IF task.fresh THEN staleTriggered
                                          ELSE staleTriggered \cup {cue.id}
                     /\ sent' = IF CueCommandSent(cue, "start")
                                THEN <<CueCommandMsg(cue, "start")>> ELSE <<>>
                     /\ dispatched' = IF CueCommandSent(cue, "start")
                                      THEN dispatched \cup {cue.id}
                                      ELSE dispatched
                ELSE /\ triggered_cues' = triggered_cues
                     /\ active_cues' = ActiveDel(active_cues, cue.id)
                     /\ staleTriggered' = staleTriggered
                     /\ sent' = IF CueCommandSent(cue, "end")
                                THEN <<CueCommandMsg(cue, "end")>> ELSE <<>>
                     /\ dispatched' = IF CueCommandSent(cue, "end")
                                      THEN dispatched \ {cue.id}
                                      ELSE dispatched
    /\ UNCHANGED <<connected, sessionVars, engineVars, last_subtitles, recVars, precVars, svcVars>>

\* ------------------------------------------------------------------- seek
\* SessionManager._get_cue_start
_get_cue_start(cue_id) ==
    IF cue_file_id = None THEN 0
    ELSE LET cue_data == _load_cue_file(cue_file_id)
         IN IF cue_data.found /\ \E i \in 1..Len(cue_data.cues) : cue_data.cues[i].id = cue_id
            THEN LET i == CHOOSE i \in 1..Len(cue_data.cues) :
                              /\ cue_data.cues[i].id = cue_id
                              /\ \A h \in 1..(i - 1) : cue_data.cues[h].id # cue_id
                 IN cue_data.cues[i].start_ms
            ELSE 0

\* handle_seek: the triggered ids that are kept
SeekTriggered(triggered, position_ms) ==
    {id \in triggered : ~(_get_cue_start(id) > position_ms)}

\* handle_seek: the active cues that are kept
SeekActive(active, position_ms) ==
    {a \in active : ~(a.end_ms <= position_ms \/ a.start_ms > position_ms)}

\* SyncEngine.seek on an audio engine
EngineSeek(eng, content_time_ms) ==
    LET cues == Catalogue[eng.file].cues
        after == {cues[i].id : i \in {h \in 1..Len(cues) : cues[h].start_ms > content_time_ms}}
        ended == {cues[i].id : i \in {h \in 1..Len(cues) :
                        /\ cues[h].id \in eng.active
                        /\ (cues[h].end_ms <= content_time_ms \/ cues[h].start_ms > content_time_ms)}}
    IN [eng EXCEPT !.triggered = @ \ after, !.active = @ \ ended]

\* the cue end events SyncEngine.seek hands to on_cue
EngineSeekEvents(eng, content_time_ms) ==
    LET cues == Catalogue[eng.file].cues
    IN SelectSeq([i \in 1..Len(cues) |-> CueEventMsg(cues[i], "end")],
                 LAMBDA m : /\ m.cue_id \in eng.active
                            /\ (m.end_ms <= content_time_ms \/ m.start_ms > content_time_ms))

\* SessionManager.handle_seek: it sends nothing itself; the audio engine it
\* forwards to reports the cues it ends through on_cue
handle_seek(position_ms) ==
    /\ triggered_cues' = SeekTriggered(triggered_cues, position_ms)
    /\ active_cues' = SeekActive(active_cues, position_ms)
    /\ IF sync_engine # 0
       THEN /\ engines' = [engines EXCEPT ![sync_engine] = EngineSeek(@, position_ms)]
            /\ sent' = EngineSeekEvents(engines[sync_engine], position_ms)
       ELSE /\ engines' = engines
            /\ sent' = <<>>
    /\ dispatched' = dispatched
    /\ staleTriggered' = staleTriggered \cap triggered_cues'
    /\ last_position_ms' = position_ms

\* handle_message, type "position"
Position(position_ms) ==
    /\ connected
    /\ update_position(position_ms)
    /\ sent' = <<>>
    /\ UNCHANGED <<connected, mode, cue_file_id, content_id, synced, sync_offset_ms,
                   triggered_cues, active_cues, dispatched, staleTriggered, engineVars,
                   last_subtitles, recVars, precVars, svcVars>>

\* handle_message, type "playback"
Playback(state, position_ms, cid) ==
    /\ connected
    /\ content_id' = cid
    /\ IF state = "playing"
       THEN /\ update_position(position_ms)
            /\ sent' = <<>>
            /\ UNCHANGED <<triggered_cues, active_cues, dispatched, staleTriggered, engines>>
       ELSE IF state = "seeked"
       THEN /\ handle_seek(position_ms)
            /\ tasks' = tasks
       ELSE /\ sent' = <<>>
            /\ UNCHANGED <<last_position_ms, tasks, triggered_cues, active_cues,
                           dispatched, staleTriggered, engines>>
    /\ UNCHANGED <<connected, mode, cue_file_id, synced, sync_offset_ms,
                   sync_engine, stop_pending, subtitle_sync_engine,
                   last_subtitles, recVars, precVars, svcVars>>


\* ------------------------------------------------------- audio sync engine
\* SyncEngine.__init__ followed by SyncEngine.start
NewSyncEngine(file, capture_ok) ==
    [file |-> file, running |-> TRUE, capture_running |-> capture_ok,
     state |-> "syncing", triggered |-> {}, active |-> {}]

\* SyncEngine._handle_sync_result of a running engine (referenced by the
\* session or not): the state change reaches the session through
\* on_state_change
AudioSyncResult(e, state) ==
    /\ e \in 1..Len(engines)
    /\ engines[e].running /\ engines[e].capture_running
    /\ engines[e].state # state
    /\ engines' = [engines EXCEPT ![e].state = state]
    /\ synced' = (state = "synced")
    /\ sent' = IF connected THEN <<SyncStateMsg(state, "", 0, 0)>> ELSE <<>>
    /\ UNCHANGED <<connected, mode, cue_file_id, content_id, sync_offset_ms,
                   last_position_ms, cueVars, sync_engine, stop_pending,
                   subtitle_sync_engine, last_subtitles, recVars, precVars, svcVars>>

\* SyncEngine._process_cues, the start condition (lookahead 100 ms)
EngineShouldStart(eng, cue, t) ==
    cue.id \notin eng.triggered /\ cue.start_ms <= t + 100 /\ t < cue.end_ms

\* SyncEngine._process_cues over the cues from index i on
RECURSIVE EngineProcess(_, _, _)
EngineProcess(eng, i, t) ==
    LET cues == Catalogue[eng.file].cues
    IN IF i > Len(cues) THEN [eng |-> eng, events |-> <<>>]
       ELSE LET cue == cues[i]
                r == IF EngineShouldStart(eng, cue, t)
                     THEN [eng |-> [eng EXCEPT !.triggered = @ \cup {cue.id},
                                               !.active = @ \cup {cue.id}],
                           events |-> <<CueEventMsg(cue, "start")>>]
                     ELSE IF cue.id \in eng.active /\ t >= cue.end_ms
                     THEN [eng |-> [eng EXCEPT !.active = @ \ {cue.id}],
                           events |-> <<CueEventMsg(cue, "end")>>]
                     ELSE [eng |-> eng, events |-> <<>>]
                rest == EngineProcess(r.eng, i + 1, t)
            IN [eng |-> rest.eng, events |-> r.events \o rest.events]

\* one iteration of SyncEngine._main_loop at content time t
EngineTick(e, t) ==
    /\ e \in 1..Len(engines)
    /\ engines[e].running
    /\ LET r == EngineProcess(engines[e], 1, t)
       IN /\ r.events # <<>>
          /\ engines' = [engines EXCEPT ![e] = r.eng]
          /\ sent' = IF connected THEN r.events ELSE <<>>
    /\ UNCHANGED <<connected, sessionVars, cueVars, sync_engine, stop_pending,
                   subtitle_sync_engine, last_subtitles, recVars, precVars, svcVars>>

\* ---------------------------------------------------------------- set_mode
Modes == {"realtime", "cue_file", "hybrid", "recording"}

\* SessionManager._start_sync_engine: subtitle markers first, then timestamp
\* mode when there are no fingerprint markers, else the audio engine, whose
\* construction or start may raise (outcome "error") or whose capture may not
\* start (outcome "nocapture").  The result is the session's fields after the
\* call and the syncState message it sends.
_start_sync_engine(cue_file, cue_data, outcome) ==
    IF cue_data.subtitles # <<>>
    THEN [synced |-> synced, sync_engine |-> 0, engines |-> engines,
          subtitle_sync_engine |-> NewSubtitleSyncEngine(cue_file),
          msgs |-> <<SyncStateMsg("syncing", "subtitle", 0, 0)>>]
    ELSE IF ~cue_data.has_markers
    THEN [synced |-> TRUE, sync_engine |-> 0, engines |-> engines,
          subtitle_sync_engine |-> NoSubtitleEngine,
          msgs |-> <<SyncStateMsg("synced", "timestamp", 0, 0)>>]
    ELSE IF outcome = "error"
    THEN [synced |-> TRUE, sync_engine |-> 0, engines |-> engines,
          subtitle_sync_engine |-> subtitle_sync_engine,
          msgs |-> <<SyncStateMsg("synced", "timestamp", 0, 0)>>]
    ELSE [synced |-> FALSE, sync_engine |-> Len(engines) + 1,
          engines |-> Append(engines, NewSyncEngine(cue_file, outcome = "ok")),
          subtitle_sync_engine |-> subtitle_sync_engine,
          msgs |-> <<SyncStateMsg("syncing", "", 0, 0)>>]

\* handle_message, types "setMode" (reply modeSet) and "loadCueFile" (reply
\* cueFileLoaded, always mode cue_file): SessionManager.set_mode and the reply
SetMode(m, cue_file, outcome, replyType) ==
    /\ connected
    /\ IF m \notin Modes
       THEN /\ sent' = <<Reply(replyType, FALSE)>>
            /\ UNCHANGED <<mode, cue_file_id, synced, triggered_cues, active_cues, tasks,
                           staleTriggered, sync_engine, engines, subtitle_sync_engine>>
       ELSE /\ mode' = m
            /\ cue_file_id' = cue_file
            /\ IF cue_file # None /\ m \in {"cue_file", "hybrid"}
               THEN LET cue_data == _load_cue_file(cue_file)
                    IN IF ~cue_data.found
                       THEN /\ sent' = <<Reply(replyType, FALSE)>>
                            /\ UNCHANGED <<synced, triggered_cues, active_cues, tasks,
                                           staleTriggered, sync_engine, engines,
                                           subtitle_sync_engine>>
                       ELSE LET r == _start_sync_engine(cue_file, cue_data, outcome)
                            IN /\ Len(r.engines) <= MaxEngines
                               /\ triggered_cues' = {}
                               /\ active_cues' = {}
                               /\ staleTriggered' = {}
                               /\ tasks' = [k \in 1..Len(tasks) |->
                                               [tasks[k] EXCEPT !.fresh = (tasks[k].next = 0)]]
                               /\ synced' = r.synced
                               /\ sync_engine' = r.sync_engine
                               /\ engines' = r.engines
                               /\ subtitle_sync_engine' = r.subtitle_sync_engine
                               /\ sent' = r.msgs \o <<Reply(replyType, TRUE)>>
               ELSE /\ sent' = <<Reply(replyType, TRUE)>>
                    /\ UNCHANGED <<synced, triggered_cues, active_cues, tasks,
                                   staleTriggered, sync_engine, engines,
                                   subtitle_sync_engine>>
    /\ UNCHANGED <<connected, content_id, sync_offset_ms, last_position_ms,
                   dispatched, stop_pending, last_subtitles, recVars, precVars, svcVars>>

\* --------------------------------------------------------------- disconnect
\* handle_connection, the finally block: remove_session, which leaves the
\* stop of a referenced audio engine to a task
Disconnect ==
    /\ connected
    /\ connected' = FALSE
    /\ stop_pending' = (sync_engine # 0)
    /\ sent' = <<>>
    /\ UNCHANGED <<sessionVars, cueVars, sync_engine, engines, subtitle_sync_engine,
                   last_subtitles, recVars, precVars, svcVars>>

\* SessionManager._stop_sync_engine with SyncEngine.stop: the engine ends its
\* active cues and reports idle, which on_state_change copies to the session
StopSyncEngine ==
    /\ stop_pending
    /\ stop_pending' = FALSE
    /\ IF sync_engine # 0
       THEN /\ engines' = [engines EXCEPT ![sync_engine] =
                              [@ EXCEPT !.running = FALSE, !.capture_running = FALSE,
                                        !.active = {}, !.state = "idle"]]
            /\ synced' = IF engines[sync_engine].state # "idle" THEN FALSE ELSE synced
            /\ sync_engine' = 0
       ELSE UNCHANGED <<engines, synced, sync_engine>>
    /\ sent' = <<>>
    /\ UNCHANGED <<connected, mode, cue_file_id, content_id, sync_offset_ms,
                   last_position_ms, cueVars, subtitle_sync_engine, last_subtitles,
                   recVars, precVars, svcVars>>

\* ----------------------------------------------------- subtitle-driven sync
\* SessionManager.process_subtitle_for_sync: the session's fields after the
\* call and the message it sends
ApplySyncResult(r) ==
    IF r.result.synced /\ ~synced
    THEN [engine |-> r.eng, synced |-> TRUE,
          sync_offset_ms |-> r.result.offset_ms,
          msgs |-> <<SyncStateMsg("synced", "subtitle", r.result.offset_ms,
                                  r.result.confidence)>>]
    ELSE [engine |-> r.eng, synced |-> synced,
          sync_offset_ms |-> sync_offset_ms, msgs |-> <<>>]

process_subtitle_for_sync(text, position_ms, stale) ==
    IF subtitle_sync_engine = NoSubtitleEngine
    THEN [engine |-> subtitle_sync_engine, synced |-> synced,
          sync_offset_ms |-> sync_offset_ms, msgs |-> <<>>]
    ELSE ApplySyncResult(process_subtitle_sync(subtitle_sync_engine, text,
                                               position_ms, stale))


\* --------------------------------------------------- subtitle-driven recording
TitleMovie == <<"M","o","v","i","e",":"," ","1">>
DefaultTitle == <<"R","e","c","o","r","d","i","n","g"," ","s","e","s","s","i","o","n","_","1">>
DefaultSafeTitle == <<"r","e","c","o","r","d","i","n","g">>

IsAlnum(c) == c \in Range(UpperCase) \cup Range(LowerCase) \cup Digits

\* the filename sanitisation of _incremental_save, _cleanup_temp_file and the
\* stopRecording handler
SafeTitle(title) ==
    LET kept == Strip(SelectSeq(title, LAMBDA c : IsAlnum(c) \/ c \in {" ", "-", "_"}))
    IN IF kept = <<>> THEN DefaultSafeTitle ELSE SubSeq(kept, 1, Min(50, Len(kept)))

\* an append that numbers every cue as the first
add_recorded_cue_FirstId(cues, command) ==
    Append(cues, [id |-> 1, start_ms |-> command.start_ms,
                  end_ms |-> command.end_ms, word |-> command.matched])

\* SessionManager.add_recorded_cue: the list after appending the command (the
\* id cue_%04d is modelled by its number)
add_recorded_cue(cues, command) ==
    Append(cues, [id |-> Len(cues) + 1, start_ms |-> command.start_ms,
                  end_ms |-> command.end_ms, word |-> command.matched])

RECURSIVE AddRecordedCues(_, _)
AddRecordedCues(cues, commands) ==
    IF commands = <<>> THEN cues
    ELSE AddRecordedCues(add_recorded_cue(cues, Head(commands)), Tail(commands))

\* SessionManager.add_recorded_subtitle: the list after the call
add_recorded_subtitle(subs, text, time_ms) ==
    IF Len(Strip(text)) < MIN_RECORDED_SUBTITLE_LEN THEN subs
    ELSE IF \E i \in 1..Len(subs) :
                /\ i > Len(subs) - 5
                /\ subs[i].text = text
                /\ Abs(subs[i].time_ms - time_ms) < RECORDED_SUBTITLE_WINDOW_MS
    THEN subs
    ELSE Append(subs, [time_ms |-> time_ms, text |-> text])

\* a duplicate test whose window includes its end point
IsDuplicate_Inclusive(ring, text, position_ms) ==
    \E i \in 1..Len(ring) :
        /\ ring[i].text = text
        /\ Abs(position_ms - ring[i].time) <= SUBTITLE_DEDUP_WINDOW_MS

\* handle_message, type "subtitle": the duplicate test against the ring
IsDuplicate(ring, text, position_ms) ==
    \E i \in 1..Len(ring) :
        /\ ring[i].text = text
        /\ Abs(position_ms - ring[i].time) < SUBTITLE_DEDUP_WINDOW_MS

\* handle_message, type "subtitle": the ring after an accepted subtitle
RingAppend(ring, text, position_ms) ==
    LET ring_plus == Append(ring, [text |-> text, time |-> position_ms])
    IN IF Len(ring_plus) > RING_SIZE THEN Tail(ring_plus) ELSE ring_plus

\* handle_message, type "subtitle", the real-time branch: the overlay
\* commands are sent and, while recording, appended with the subtitle
SubtitleRealtime(text, position_ms, commands) ==
    /\ sent' = [i \in 1..Len(commands) |-> OverlayMsg(commands[i])]
    /\ IF recording
       THEN /\ Len(recorded_cues) + Len(commands) <= MaxRecorded
            /\ recorded_cues' = AddRecordedCues(recorded_cues, commands)
            /\ temp_files' = IF commands # <<>>
                             THEN temp_files \cup {SafeTitle(recording_title)}
                             ELSE temp_files
            /\ recorded_subtitles' =
                   add_recorded_subtitle(recorded_subtitles, text, position_ms)
            /\ Len(recorded_subtitles') <= MaxRecorded
            /\ appended' =
                   [cues |-> appended.cues \o
                                 SubSeq(recorded_cues', Len(recorded_cues) + 1,
                                        Len(recorded_cues')),
                    subtitles |-> appended.subtitles \o
                                 SubSeq(recorded_subtitles', Len(recorded_subtitles) + 1,
                                        Len(recorded_subtitles'))]
       ELSE UNCHANGED <<recorded_cues, recorded_subtitles, temp_files, appended>>
    /\ UNCHANGED <<subtitle_sync_engine, synced, sync_offset_ms>>

\* handle_message, type "subtitle", the cue_file branch
SubtitleSync(r) ==
    /\ subtitle_sync_engine' = r.engine
    /\ synced' = r.synced
    /\ sync_offset_ms' = r.sync_offset_ms
    /\ sent' = r.msgs
    /\ UNCHANGED <<recorded_cues, recorded_subtitles, temp_files, appended>>

\* handle_message, type "subtitle"
Subtitle(text, start_ms, end_ms, position_ms, stale) ==
    /\ connected
    /\ IF IsDuplicate(last_subtitles, text, position_ms)
       THEN /\ sent' = <<>>
            /\ UNCHANGED <<last_subtitles, subtitle_sync_engine, synced, sync_offset_ms,
                           recorded_cues, recorded_subtitles, temp_files, appended>>
       ELSE /\ last_subtitles' = RingAppend(last_subtitles, text, position_ms)
            /\ IF mode \in {"realtime", "hybrid", "recording"}
               THEN SubtitleRealtime(text, position_ms,
                                     process_subtitle(text, start_ms, end_ms))
               ELSE SubtitleSync(process_subtitle_for_sync(text, position_ms, stale))
    /\ UNCHANGED <<connected, mode, cue_file_id, content_id, last_position_ms, cueVars,
                   sync_engine, engines, stop_pending, recording,
                   recording_start_position_ms, recording_title, cue_dir, precVars, svcVars>>

\* handle_message, type "startRecording": SessionManager.start_recording
StartRecording(title, cid) ==
    /\ connected
    /\ mode' = "recording"
    /\ recording' = TRUE
    /\ recording_start_position_ms' = last_position_ms
    /\ recorded_cues' = <<>>
    /\ recorded_subtitles' = <<>>
    /\ recording_title' = IF title # <<>> THEN title ELSE DefaultTitle
    /\ content_id' = cid
    /\ appended' = [cues |-> <<>>, subtitles |-> <<>>]
    /\ sent' = <<Reply("recordingStarted", TRUE)>>
    /\ UNCHANGED <<connected, cue_file_id, synced, sync_offset_ms, last_position_ms,
                   cueVars, engineVars, last_subtitles, temp_files, cue_dir, precVars, svcVars>>

\* SessionManager.stop_recording: the cue file it seals
SealedCueData ==
    LET duration_ms == last_position_ms - recording_start_position_ms
    IN [filename |-> SafeTitle(recording_title),
        version |-> "2.0",
        title |-> recording_title,
        duration_ms |-> IF duration_ms > 0 THEN duration_ms ELSE last_position_ms,
        content_id |-> content_id,
        subtitles |-> recorded_subtitles,
        cues |-> recorded_cues]

\* handle_message, type "stopRecording": SessionManager.stop_recording and the
\* save of the sealed file under the sanitised title
StopRecording ==
    /\ connected
    /\ IF ~recording
       THEN /\ sent' = <<Reply("recordingStopped", FALSE)>>
            /\ UNCHANGED <<mode, recording, recorded_subtitles, temp_files, cue_dir>>
       ELSE /\ recording' = FALSE
            /\ temp_files' = temp_files \ {SafeTitle(recording_title)}
            /\ mode' = "realtime"
            /\ recorded_subtitles' = <<>>
            /\ cue_dir' = {f \in cue_dir : f.filename # SealedCueData.filename}
                            \cup {SealedCueData}
            /\ sent' = <<Reply("recordingStopped", TRUE)>>
    /\ UNCHANGED <<connected, cue_file_id, content_id, synced, sync_offset_ms,
                   last_position_ms, cueVars, engineVars, last_subtitles,
                   recording_start_position_ms, recorded_cues, recording_title,
                   appended, precVars, svcVars>>

\* handle_message, type "abortRecording": SessionManager.abort_recording
AbortRecording ==
    /\ connected
    /\ IF ~recording
       THEN /\ sent' = <<Reply("recordingAborted", FALSE)>>
            /\ UNCHANGED <<mode, recording, recorded_cues, recorded_subtitles,
                           recording_title, appended>>
       ELSE /\ recording' = FALSE
            /\ mode' = "realtime"
            /\ recorded_cues' = <<>>
            /\ recorded_subtitles' = <<>>
            /\ recording_title' = <<>>
            /\ appended' = [cues |-> <<>>, subtitles |-> <<>>]
            /\ sent' = <<Reply("recordingAborted", TRUE)>>
    /\ UNCHANGED <<connected, cue_file_id, content_id, synced, sync_offset_ms,
                   last_position_ms, cueVars, engineVars, last_subtitles,
                   recording_start_position_ms, temp_files, cue_dir, precVars, svcVars>>

\* handle_message, type "pauseRecording": SessionManager.pause_recording
PauseRecording ==
    /\ connected
    /\ IF ~recording
       THEN /\ sent' = <<Reply("recordingPaused", FALSE)>>
            /\ UNCHANGED recording
       ELSE /\ recording' = FALSE
            /\ sent' = <<Reply("recordingPaused", TRUE)>>
    /\ UNCHANGED <<connected, sessionVars, cueVars, engineVars, last_subtitles,
                   recording_start_position_ms, recorded_cues, recorded_subtitles,
                   recording_title, temp_files, cue_dir, appended, precVars, svcVars>>

\* a resume that re-anchors the start position whatever was recorded
ResumeAnchor_Always(cues, start_position_ms, position_ms) == position_ms

\* SessionManager.resume_recording: the start position after the call
ResumeAnchor(cues, start_position_ms, position_ms) ==
    IF Len(cues) > 0 THEN start_position_ms ELSE position_ms

\* handle_message, type "resumeRecording": SessionManager.resume_recording;
\* the reply carries the position of the request
ResumeRecording(position_ms) ==
    /\ connected
    /\ recording' = TRUE
    /\ mode' = "recording"
    /\ recording_start_position_ms' =
           ResumeAnchor(recorded_cues, recording_start_position_ms, position_ms)
    /\ sent' = <<[Reply("recordingResumed", TRUE) EXCEPT !.start_ms = position_ms]>>
    /\ UNCHANGED <<connected, cue_file_id, content_id, synced, sync_offset_ms,
                   last_position_ms, cueVars, engineVars, last_subtitles, recorded_cues,
                   recorded_subtitles, recording_title, temp_files, cue_dir, appended, precVars, svcVars>>


\* ---------------------------------------------- precision recording (Whisper)
\* recorder.recordings maps a recording id (the second it was started in) to
\* its RecordingState; active and collector are ids, 0 for None; captures
\* counts the AudioCapture objects that are running.
PADDING_MS == 50
CHUNK_MS == 500
WordShit == <<"s","h","i","t">>

\* get_all_profanity_words: two of the words it returns
Lexicon == {WordFuck, WordShit}

\* find_profanity_timestamps: the words whose cleaned form is in the lexicon
find_profanity_timestamps(words) ==
    SelectSeq(words, LAMBDA w : SelectSeq(Lower(w.word), IsAlnum) \in Lexicon)

\* WordTiming
Word(word, start_ms, end_ms, confidence) ==
    [word |-> word, start_ms |-> start_ms, end_ms |-> end_ms, confidence |-> confidence]

\* the transcriptions the transcriber returns here, and the detected words
\* of each
Transcriptions ==
    {<< Word(WordShit, 2500, 2700, 90) >>,
     << Word(<<"H","e","l","l","o">>, 0, 20, 80), Word(<<"F","u","c","k","!">>, 30, 400, 70) >>}

Detected == [t \in Transcriptions |-> find_profanity_timestamps(t)]

\* the sanitised file names of the titles recorded here
SafeTitles == [t \in {TitleMovie} |-> SafeTitle(t)]

\* PrecisionRecorder._generate_cue_file: the cues of the detected words
GenerateCues(detected, video_offset_ms) ==
    [i \in 1..Len(detected) |->
        [id |-> i,
         type |-> "mute",
         start_ms |-> Max(0, detected[i].start_ms - PADDING_MS + video_offset_ms),
         end_ms |-> detected[i].end_ms + PADDING_MS + video_offset_ms,
         detected_word |-> detected[i].word,
         confidence |-> detected[i].confidence,
         source |-> "whisper"]]

\* a file in the cue directory: the WAV of _save_audio or the cue file of
\* _generate_cue_file and _save_cue_file
PrecFile(kind, state, cues, words) ==
    [kind |-> kind, name |-> SafeTitles[state.title], version |-> "2.0", cues |-> cues,
     duration_ms |-> state.duration_ms,
     video_start_position_ms |-> state.video_start_position_ms, transcription |-> words]

WriteFile(files, f) == {g \in files : g.kind # f.kind \/ g.name # f.name} \cup {f}

PrecReply(type, success, recording_id, error, audio_path) ==
    [type |-> type, success |-> success, recording_id |-> recording_id, error |-> error,
     audio_path |-> audio_path]

\* dict assignment self._recordings[recording_id] = state
PutRecording(recordings, rid, state) ==
    [r \in DOMAIN recordings \cup {rid} |-> IF r = rid THEN state ELSE recordings[r]]

\* a recorder that takes every start request
IsActive_Never(r) == FALSE

\* PrecisionRecorder.start_recording: the test of self._active_recording
IsActive(r) == r.active # 0

\* PrecisionRecorder.start_recording, behind "startPrecisionRecording"
StartPrecisionRecording(title, video_start_position_ms, save_audio, capture_ok, vol_ok, rid) ==
    /\ connected
    /\ \A r \in DOMAIN recorder.recordings : r <= rid
    /\ IF IsActive(recorder)
       THEN /\ sent' = <<PrecReply("precisionRecordingStarted", FALSE, recorder.active,
                                   "Recording already in progress", None)>>
            /\ UNCHANGED recorder
       ELSE LET state == [title |-> title,
                          video_start_position_ms |-> video_start_position_ms,
                          save_audio |-> save_audio, chunks |-> 0, duration_ms |-> 0,
                          status |-> "recording", error |-> None, output_path |-> None]
            IN IF ~capture_ok
               THEN /\ recorder' =
                           [recorder EXCEPT
                               !.recordings = PutRecording(@, rid,
                                   [state EXCEPT !.status = "failed",
                                                 !.error = "Failed to start audio capture"]),
                               !.active = 0,
                               !.capture = "failed"]
                    /\ sent' = <<PrecReply("precisionRecordingStarted", FALSE, rid,
                                           "Failed to start audio capture", None)>>
               ELSE /\ recorder' =
                           [recorder EXCEPT
                               !.recordings = PutRecording(@, rid, state),
                               !.active = rid,
                               !.capture = "running",
                               !.captures = @ + 1,
                               !.collector = rid,
                               !.volume_recorder = vol_ok]
                    /\ sent' = <<PrecReply("precisionRecordingStarted", TRUE, rid, None,
                                           None)>>
    /\ UNCHANGED <<connected, sessionVars, cueVars, engineVars, last_subtitles, recVars,
                   prec_files, svcVars>>

\* PrecisionRecorder._collect_audio: the collector thread appends one chunk
CollectAudio ==
    /\ recorder.capture = "running"
    /\ recorder.collector # 0
    /\ recorder.recordings[recorder.collector].chunks < MaxChunks
    /\ recorder' = [recorder EXCEPT
                       !.recordings[recorder.collector].chunks = @ + 1,
                       !.recordings[recorder.collector].duration_ms = @ + CHUNK_MS]
    /\ sent' = <<>>
    /\ UNCHANGED <<connected, sessionVars, cueVars, engineVars, last_subtitles, recVars,
                   prec_files, svcVars>>

\* a recorder that processes whatever was captured, even nothing
NoAudio_Never(chunks) == FALSE

\* PrecisionRecorder.stop_recording: the test "not state.audio_chunks"
NoAudio(chunks) == chunks = 0

\* PrecisionRecorder.stop_recording once capture has stopped: the recording's
\* final state, the files in the cue directory and the reply. The
\* transcriber raises or returns the transcription, a sequence of word
\* timings.
ProcessRecording(rid, state, raises, transcription) ==
    LET audio == PrecFile("wav", state, <<>>, <<>>)
        saved == IF state.save_audio THEN WriteFile(prec_files, audio) ELSE prec_files
        audio_path == IF state.save_audio THEN audio.name ELSE None
        cue_file == PrecFile("opencue", state,
                             GenerateCues(Detected[transcription],
                                          state.video_start_position_ms),
                             transcription)
    IN IF NoAudio(state.chunks)
       THEN [state |-> [state EXCEPT !.status = "failed", !.error = "No audio captured"],
             files |-> prec_files,
             reply |-> PrecReply("precisionRecordingStopped", FALSE, rid,
                                 "No audio captured", None)]
       ELSE IF raises
       THEN [state |-> [state EXCEPT !.status = "failed", !.error = "Transcription failed"],
             files |-> saved,
             reply |-> PrecReply("precisionRecordingStopped", FALSE, rid,
                                 "Transcription failed", audio_path)]
       ELSE [state |-> [state EXCEPT !.status = "complete", !.output_path = cue_file.name],
             files |-> WriteFile(saved, cue_file),
             reply |-> PrecReply("precisionRecordingStopped", TRUE, rid, None, audio_path)]

\* PrecisionRecorder.stop_recording, behind "stopPrecisionRecording"; the
\* request names a recording or none (0)
StopPrecisionRecording(recording_id, raises, transcription) ==
    /\ connected
    /\ LET rid == IF recording_id # 0 THEN recording_id ELSE recorder.active
       IN IF rid = 0 \/ rid \notin DOMAIN recorder.recordings
          THEN /\ sent' = <<PrecReply("precisionRecordingStopped", FALSE, 0,
                                      "No active recording found", None)>>
               /\ UNCHANGED precVars
          ELSE LET done == ProcessRecording(rid, recorder.recordings[rid], raises,
                                                transcription)
               IN /\ recorder' =
                         [recorder EXCEPT
                             !.recordings[rid] = done.state,
                             !.volume_recorder = FALSE,
                             !.capture = None,
                             !.captures = IF recorder.capture = "running" THEN @ - 1 ELSE @,
                             !.collector = 0,
                             !.active = 0]
                  /\ prec_files' = done.files
                  /\ sent' = <<done.reply>>
    /\ UNCHANGED <<connected, sessionVars, cueVars, engineVars, last_subtitles, recVars, svcVars>>

\* PrecisionRecorder.abort_recording, behind "abortPrecisionRecording"; the
\* request names a recording or none (0); the collector thread is not joined
AbortPrecisionRecording(recording_id) ==
    /\ connected
    /\ LET rid == IF recording_id # 0 THEN recording_id ELSE recorder.active
       IN IF rid = 0 \/ rid \notin DOMAIN recorder.recordings
          THEN /\ sent' = <<PrecReply("precisionRecordingAborted", FALSE, 0,
                                      "No recording found", None)>>
               /\ UNCHANGED recorder
          ELSE /\ recorder' =
                      [recorder EXCEPT
                          !.recordings[rid].status = "aborted",
                          !.volume_recorder = FALSE,
                          !.capture = None,
                          !.captures = IF recorder.capture = "running" THEN @ - 1 ELSE @,
                          !.active = 0]
               /\ sent' = <<PrecReply("precisionRecordingAborted", TRUE, rid, None, None)>>
    /\ UNCHANGED <<connected, sessionVars, cueVars, engineVars, last_subtitles, recVars,
                   prec_files, svcVars>>

\* SpecPrec: the precision recorder driven by one client: start requests that
\* succeed or fail to open the capture, the collector thread, and stop
\* requests whose transcription finds words or raises.
VideoStarts == {0, 120000}

PrecStart ==
    \E v \in VideoStarts, save_audio, capture_ok \in BOOLEAN, rid \in 1..MaxRecordings :
        StartPrecisionRecording(TitleMovie, v, save_audio, capture_ok, TRUE, rid)
PrecStop ==
    \E recording_id \in 0..MaxRecordings, raises \in BOOLEAN, t \in Transcriptions :
        StopPrecisionRecording(recording_id, raises, t)

NextPrec ==
    \/ PrecStart
    \/ CollectAudio
    \/ PrecStop

SpecPrec == Init /\ [][NextPrec]_vars

\* ------------------------------------------------- audio/capture.py (capture)
\* the variables a step of the capture leaves alone
NotCapture == <<connected, sessionVars, cueVars, engineVars, last_subtitles, recVars,
                precVars, sent, advisor, catalogue, timing, matcher>>

Backends == {"vbcable", "loopback", "microphone"}

\* queue.Queue.put when there is room
Enqueue(c, chunk) == [c EXCEPT !.queue = Append(@, chunk)]

\* queue.Queue.full
Full(c) == Len(c.queue) >= QUEUE_MAXSIZE

\* AudioCapture.start: available says whether get_available_modes found the
\* requested mode; backend is the device the capture thread will find
CaptureStart(available, backend) ==
    /\ capture.thread \in {"none", "exited"}
    /\ IF capture.running \/ ~available
       THEN UNCHANGED capture
       ELSE capture' = [capture EXCEPT
                           !.running = TRUE,
                           !.active_mode = IF backend = "microphone" THEN "mic" ELSE "system",
                           !.backend = backend,
                           !.thread = IF backend = "microphone" THEN "stream" ELSE "loop",
                           !.stop = "idle"]
    /\ UNCHANGED NotCapture

\* _capture_system_audio, both loops: the test of self.running and the
\* recording of one chunk (sd.rec with sd.wait, or recorder.record)
CaptureLoop ==
    /\ capture.thread = "loop"
    /\ IF capture.running
       THEN /\ capture.produced < MaxProduced
            /\ capture' = [capture EXCEPT !.thread = "put", !.data = capture.produced + 1,
                                          !.produced = @ + 1]
       ELSE capture' = [capture EXCEPT !.thread = "exited", !.data = 0]
    /\ UNCHANGED NotCapture

\* audio_queue.put(data, timeout=0.1): the chunk is queued, or the queue
\* stayed full for the whole wait and queue.Full is raised
CapturePut ==
    /\ capture.thread = "put"
    /\ capture' = IF Full(capture)
                  THEN [capture EXCEPT !.thread = "full"]
                  ELSE [Enqueue(capture, capture.data) EXCEPT !.thread = "loop", !.data = 0]
    /\ UNCHANGED NotCapture

\* except queue.Full: audio_queue.get_nowait(), which raises queue.Empty
\* (swallowed by "except Exception: pass") when a consumer has emptied the
\* queue in between
CaptureGetNowait ==
    /\ capture.thread = "full"
    /\ capture' = IF capture.queue = <<>>
                  THEN [capture EXCEPT !.thread = "loop", !.data = 0,
                                       !.dropped = @ \cup {capture.data}]
                  ELSE [capture EXCEPT !.thread = "retry", !.queue = Tail(@),
                                       !.dropped = @ \cup {Head(capture.queue)}]
    /\ UNCHANGED NotCapture

\* except queue.Full: the second audio_queue.put(data, timeout=0.1)
CaptureRetry ==
    /\ capture.thread = "retry"
    /\ capture' = IF Full(capture)
                  THEN [capture EXCEPT !.thread = "loop", !.data = 0,
                                       !.dropped = @ \cup {capture.data}]
                  ELSE [Enqueue(capture, capture.data) EXCEPT !.thread = "loop", !.data = 0]
    /\ UNCHANGED NotCapture

\* _capture_microphone.callback, called by the input stream while it is open
MicCallback ==
    /\ capture.thread = "stream"
    /\ IF capture.running
       THEN /\ capture.produced < MaxProduced
            /\ capture' =
                  IF Full(capture)
                  THEN [capture EXCEPT !.produced = @ + 1,
                                       !.dropped = @ \cup {capture.produced + 1}]
                  ELSE [Enqueue(capture, capture.produced + 1) EXCEPT !.produced = @ + 1]
       ELSE UNCHANGED capture
    /\ UNCHANGED NotCapture

\* _capture_microphone: the "with sd.InputStream" block is left, because
\* self.running is false or because the loop body raised (it asks for the
\* event loop of a thread that has none); the stream is closed
MicLoop ==
    /\ capture.thread = "stream"
    /\ capture' = [capture EXCEPT !.thread = "exited"]
    /\ UNCHANGED NotCapture

\* AudioCapture.get_audio_chunk: the oldest chunk, or None at the timeout
get_audio_chunk ==
    /\ capture' = IF capture.queue = <<>> THEN capture
                  ELSE [capture EXCEPT !.queue = Tail(@)]
    /\ UNCHANGED NotCapture

\* AudioCapture.stop up to the join of the capture thread
CaptureStopBegin ==
    /\ capture.stop # "joining"
    /\ capture' = [capture EXCEPT !.running = FALSE, !.stop = "joining"]
    /\ UNCHANGED NotCapture

\* AudioCapture.stop after the join, which ended with the thread or (while
\* the thread is still alive) at its 2 s timeout: the queue is drained
CaptureStopEnd(timed_out) ==
    /\ capture.stop = "joining"
    /\ IF timed_out THEN capture.thread \notin {"none", "exited"}
                    ELSE capture.thread \in {"none", "exited"}
    /\ capture' = [capture EXCEPT !.active_mode = None, !.queue = <<>>, !.stop = "returned"]
    /\ UNCHANGED NotCapture

\* ------------------------- precision_recorder.py over its AudioCapture
\* the variables a step of the recorder and its capture leaves alone
NotRecording == <<connected, sessionVars, cueVars, engineVars, last_subtitles, recVars,
                  advisor, catalogue, timing, matcher>>

\* PrecisionRecorder.start_recording when the capture starts: a new
\* AudioCapture in system mode, its capture thread and the collector thread
RecorderStart(rid) ==
    /\ connected
    /\ ~IsActive(recorder)
    /\ \A r \in DOMAIN recorder.recordings : r <= rid
    /\ recorder' =
           [recorder EXCEPT
               !.recordings = PutRecording(@, rid,
                   [title |-> TitleMovie, video_start_position_ms |-> 0,
                    save_audio |-> FALSE, chunks |-> 0, duration_ms |-> 0,
                    status |-> "recording", error |-> None, output_path |-> None]),
               !.active = rid,
               !.capture = "running",
               !.captures = @ + 1,
               !.collector = rid,
               !.volume_recorder = FALSE]
    /\ capture' = [NewCapture EXCEPT !.running = TRUE, !.active_mode = "system",
                                     !.backend = "loopback", !.thread = "loop",
                                     !.collector = "test"]
    /\ prec_files' = prec_files
    /\ sent' = <<PrecReply("precisionRecordingStarted", TRUE, rid, None, None)>>
    /\ UNCHANGED NotRecording

\* _collect_audio: the loop condition "self._capture and
\* self._capture.is_running"
CollectorTest ==
    /\ capture.collector = "test"
    /\ capture' = [capture EXCEPT !.collector =
                      IF recorder.capture = "running" /\ capture.running
                      THEN "get" ELSE "exited"]
    /\ UNCHANGED <<recorder, prec_files, sent>>
    /\ UNCHANGED NotRecording

\* _collect_audio: get_audio_chunk(timeout=1.0) returns the oldest chunk,
\* which is appended to state.audio_chunks, or None at the timeout
CollectorGet ==
    /\ capture.collector = "get"
    /\ recorder.collector # 0
    /\ IF capture.queue = <<>>
       THEN /\ capture' = [capture EXCEPT !.collector = "test"]
            /\ recorder' = recorder
       ELSE /\ capture' = [capture EXCEPT !.collector = "test", !.queue = Tail(@)]
            /\ recorder' = [recorder EXCEPT
                               !.recordings[recorder.collector].chunks = @ + 1,
                               !.recordings[recorder.collector].duration_ms = @ + CHUNK_MS]
    /\ UNCHANGED <<prec_files, sent>>
    /\ UNCHANGED NotRecording

\* stop_recording up to the join inside AudioCapture.stop: running is
\* cleared; enqueued_at_stop notes the last chunk queued so far
RecorderStopBegin ==
    /\ connected
    /\ recorder.active # 0
    /\ recorder.capture = "running"
    /\ capture.stop = "idle"
    /\ capture' = [capture EXCEPT
                      !.running = FALSE, !.stop = "joining",
                      !.enqueued_at_stop = IF capture.data # 0 THEN capture.data - 1
                                           ELSE capture.produced]
    /\ recorder' = [recorder EXCEPT !.volume_recorder = FALSE]
    /\ UNCHANGED <<prec_files, sent>>
    /\ UNCHANGED NotRecording

\* AudioCapture.stop after the join of the capture thread (ended, or timed
\* out after 2 s): the queue is drained; stop_recording drops the capture
RecorderStopDrain(timed_out) ==
    /\ capture.stop = "joining"
    /\ recorder.active # 0
    /\ IF timed_out THEN capture.thread \notin {"none", "exited"}
                    ELSE capture.thread \in {"none", "exited"}
    /\ capture' = [capture EXCEPT !.active_mode = None, !.queue = <<>>, !.stop = "returned"]
    /\ recorder' = [recorder EXCEPT !.capture = None, !.captures = @ - 1]
    /\ UNCHANGED <<prec_files, sent>>
    /\ UNCHANGED NotRecording

\* stop_recording after the join of the collector thread, which leaves its
\* loop within the second of its get: the chunks collected are concatenated
\* and processed
RecorderStopEnd(raises, transcription) ==
    /\ capture.stop = "returned"
    /\ recorder.active # 0
    /\ capture.collector = "exited"
    /\ LET rid == recorder.active
           done == ProcessRecording(rid, recorder.recordings[rid], raises, transcription)
       IN /\ recorder' = [recorder EXCEPT !.recordings[rid] = done.state,
                                          !.collector = 0, !.active = 0]
          /\ prec_files' = done.files
          /\ sent' = <<done.reply>>
    /\ capture' = capture
    /\ UNCHANGED NotRecording

\* ------------------------------------------------------ llm/context.py (advisor)
\* the categories of the word list entries used here, with the substrings
\* of each that the code tests for
CategoryParts ==
    [c \in {"language.profanity.severe", "language.blasphemy"} |->
        IF c = "language.blasphemy" THEN {"blasphemy"} ELSE {"profanity.severe"}]

\* Python's  part in category
InCategory(part, category) == part \in CategoryParts[category]

TxtOhMyGod == <<"O","h"," ","m","y"," ","G","o","d","!">>
TxtGodIsGood == <<"G","o","d"," ","i","s"," ","g","o","o","d">>

\* should_filter_with_context: exclamatory_patterns
ExclamatoryPatterns ==
    { <<"o","h"," ","g","o","d">>, <<"m","y"," ","g","o","d">>, <<"o","h"," ","m","y"," ","g","o","d">>, <<"o","m","g">>,
      <<"j","e","s","u","s"," ","c","h","r","i","s","t">>, <<"j","e","s","u","s","!">>, <<"c","h","r","i","s","t","!">>,
      <<"g","o","d"," ","d","a","m","n">>, <<"g","o","d","d","a","m","n">>, <<"g","o","d"," ","d","a","m","n"," ","i","t">> }

\* the advisor's reply texts: the two documented objects, prose without an
\* object, prose that says "mute", braces around something that is not JSON,
\* and an object whose confidence is not a number
ReplyFilter == <<"{","\"","s","h","o","u","l","d","_","f","i","l","t","e","r","\"",":"," ","t","r","u","e",","," ","\"","c","o","n","f","i","d","e","n","c","e","\"",":"," ","0",".","9","5","}">>
ReplyKeep == <<"{","\"","s","h","o","u","l","d","_","f","i","l","t","e","r","\"",":"," ","f","a","l","s","e",","," ","\"","c","o","n","f","i","d","e","n","c","e","\"",":"," ","0",".","9","}">>
ReplyProse == <<"I"," ","a","m"," ","n","o","t"," ","s","u","r","e">>
ReplyMute == <<"M","u","t","e"," ","i","t">>
ReplyBroken == <<"{","n","o","t"," ","s","u","r","e","}">>
ReplyBadConfidence == <<"{","\"","s","h","o","u","l","d","_","f","i","l","t","e","r","\"",":"," ","f","a","l","s","e",","," ","\"","c","o","n","f","i","d","e","n","c","e","\"",":"," ","\"","h","i","g","h","\"","}">>

\* json.loads of the text between the first "{" and the last "}" of each
\* reply text: whether it succeeds, and the object's should_filter and
\* confidence entries
JsonLoads ==
    [t \in {ReplyFilter, ReplyKeep, ReplyProse, ReplyMute, ReplyBroken, ReplyBadConfidence} |->
        IF t = ReplyFilter THEN [ok |-> TRUE, should_filter |-> "true", confidence |-> "95"]
        ELSE IF t = ReplyKeep THEN [ok |-> TRUE, should_filter |-> "false", confidence |-> "90"]
        ELSE IF t = ReplyBadConfidence
        THEN [ok |-> TRUE, should_filter |-> "false", confidence |-> "high"]
        ELSE [ok |-> FALSE, should_filter |-> "absent", confidence |-> "absent"]]

\* what the HTTP call to the advisor can do: time out, fail, answer with a
\* status other than 200, answer 200 with a body that is not JSON, or answer
\* 200 with a JSON body whose "response" is one of the reply texts
AdvisorOutcomes ==
    { [outcome |-> o, text |-> <<>>] : o \in {"timeout", "error", "status", "notjson"} }
    \cup { [outcome |-> "ok", text |-> t] : t \in DOMAIN JsonLoads }

\* str.find / str.rfind of a single character, 0-based, -1 when absent
Find(text, c) ==
    IF \E i \in 1..Len(text) : text[i] = c
    THEN (CHOOSE i \in 1..Len(text) : text[i] = c /\ \A j \in 1..(i - 1) : text[j] # c) - 1
    ELSE -1
RFind(text, c) ==
    IF \E i \in 1..Len(text) : text[i] = c
    THEN (CHOOSE i \in 1..Len(text) : text[i] = c /\ \A j \in (i + 1)..Len(text) : text[j] # c) - 1
    ELSE -1

\* analyze_context: the result when the call fails
DefaultFilter == [should_filter |-> TRUE, confidence |-> 50, context_type |-> "unknown"]

\* analyze_context: the keyword fallback on a reply without a JSON object
KeywordFallback(response_text) ==
    [should_filter |-> \/ Contains(Lower(response_text), <<"s","h","o","u","l","d","_","f","i","l","t","e","r","\"",":"," ","t","r","u","e">>)
                       \/ Contains(Lower(response_text), <<"m","u","t","e">>),
     confidence |-> 60, context_type |-> "unknown"]

\* analyze_context with the HTTP library present
analyze_context(reply) ==
    IF reply.outcome # "ok" THEN DefaultFilter
    ELSE LET start == Find(reply.text, "{")
             end == RFind(reply.text, "}") + 1
             result == JsonLoads[reply.text]
         IN IF start >= 0 /\ end > start /\ result.ok
            THEN IF result.confidence = "high" THEN DefaultFilter
                 ELSE [should_filter |-> result.should_filter # "false",
                       confidence |-> IF result.confidence = "95" THEN 95 ELSE 90,
                       context_type |-> "llm"]
            ELSE KeywordFallback(reply.text)

\* should_filter_with_context; ollama_ok is the answer of
\* check_ollama_available at this call
should_filter_with_context(text, category, use_llm, ollama_ok, reply) ==
    LET is_exclamation == \E p \in ExclamatoryPatterns : Contains(Lower(text), p)
    IN IF InCategory("blasphemy", category) /\ ~is_exclamation /\ use_llm /\ ollama_ok
       THEN analyze_context(reply)
       ELSE IF InCategory("profanity.severe", category)
       THEN [should_filter |-> TRUE, confidence |-> 95, context_type |-> "profanity"]
       ELSE IF InCategory("profanity.moderate", category)
       THEN [should_filter |-> TRUE, confidence |-> 90, context_type |-> "profanity"]
       ELSE IF is_exclamation
       THEN [should_filter |-> TRUE, confidence |-> 85, context_type |-> "exclamation"]
       ELSE [should_filter |-> TRUE, confidence |-> 75, context_type |-> "unknown"]

\* overlay_engine.process_subtitle, the body of the loop for one detection
\* with the advisor module imported and enabled: whether an overlay command
\* is built for the detection, and its confidence
FilterDetection(text, category, confidence, llm_available, ollama_ok, reply) ==
    IF InCategory("blasphemy", category)
    THEN LET context_result ==
                 should_filter_with_context(text, category, llm_available, ollama_ok, reply)
         IN [emitted |-> context_result.should_filter,
             confidence |-> context_result.confidence,
             consulted |-> TRUE]
    ELSE [emitted |-> TRUE, confidence |-> confidence, consulted |-> FALSE]

\* one subtitle with one detection, and what the advisor will do when asked
AdvisorInputs ==
    { [text |-> t, category |-> c, llm_available |-> l, ollama_ok |-> k, reply |-> r,
       done |-> FALSE, emitted |-> FALSE, confidence |-> 0] :
          t \in {TxtOhMyGod, TxtGodIsGood}, c \in DOMAIN CategoryParts,
          l \in BOOLEAN, k \in BOOLEAN, r \in AdvisorOutcomes }

\* overlay_engine.process_subtitle on the subtitle held in advisor
ProcessDetection ==
    /\ ~advisor.done
    /\ LET r == FilterDetection(advisor.text, advisor.category,
                                IF advisor.category = "language.blasphemy" THEN 75 ELSE 95,
                                advisor.llm_available, advisor.ollama_ok, advisor.reply)
       IN advisor' = [advisor EXCEPT !.done = TRUE, !.emitted = r.emitted,
                                     !.confidence = r.confidence]
    /\ UNCHANGED <<connected, sessionVars, cueVars, engineVars, last_subtitles, recVars,
                   precVars, sent, capture, catalogue, timing, matcher>>

\* -------------------------------------------------- cue_manager.py (CueManager)
\* the variables a step of the catalogue manager leaves alone
NotCatalogue == <<connected, sessionVars, cueVars, engineVars, last_subtitles, recVars,
                  precVars, sent, capture, advisor, timing, matcher>>

\* two cue documents that differ in the order of their cues
DocForward ==
    [version |-> "2.0", title |-> "Movie",
     cues |-> << Cue("cue_0001", 3000, 4000, WordFuck), Cue("cue_0002", 1000, 2000, WordFuck) >>]
DocBackward ==
    [version |-> "2.0", title |-> "Movie",
     cues |-> << Cue("cue_0002", 1000, 2000, WordFuck), Cue("cue_0001", 3000, 4000, WordFuck) >>]
Docs == {DocForward, DocBackward}

\* json.dump of a cue document: an object, its members in insertion order
JsonDump(data) ==
    [members |-> << [key |-> "version", str |-> data.version, list |-> <<>>],
                    [key |-> "content.title", str |-> data.title, list |-> <<>>],
                    [key |-> "cues", str |-> "", list |-> data.cues] >>]

\* json.load: the members by key
Member(file, key) == file.members[CHOOSE i \in 1..Len(file.members) : file.members[i].key = key]
JsonLoad(file) ==
    [version |-> Member(file, "version").str,
     title |-> Member(file, "content.title").str,
     cues |-> Member(file, "cues").list]

\* CueManager.refresh_index
refresh_index ==
    /\ catalogue' = [catalogue EXCEPT
                        !.index = {n \in Stems : catalogue.files[n] # NoFile},
                        !.op = "refresh_index", !.name = "", !.result = NoData]
    /\ UNCHANGED NotCatalogue

\* CueManager._load_file: the data read from the file, cached under the key
_load_file(c, identifier) ==
    [c EXCEPT !.cache[identifier] = JsonLoad(c.files[identifier]),
              !.result = JsonLoad(c.files[identifier])]

\* CueManager.load by file stem (the files carry no IMDB id): the cache,
\* then the index, then the file <identifier>.opencue if it exists
CatalogueLoad(identifier) ==
    /\ LET c == [catalogue EXCEPT !.op = "load", !.name = identifier, !.result = NoData]
       IN catalogue' =
             IF c.cache[identifier] # NoData
             THEN [c EXCEPT !.result = c.cache[identifier]]
             ELSE IF identifier \in c.index \/ c.files[identifier] # NoFile
             THEN _load_file(c, identifier)
             ELSE c
    /\ UNCHANGED NotCatalogue

\* CueManager.add_cue_file: the file is written and its index entry updated
add_cue_file(data, filename) ==
    /\ catalogue' = [catalogue EXCEPT
                        !.files[filename] = JsonDump(data),
                        !.index = @ \cup {filename},
                        !.written[filename] = data,
                        !.op = "add_cue_file", !.name = filename, !.result = NoData]
    /\ UNCHANGED NotCatalogue

\* --------------------------------- overlay_engine.py (the timing of an overlay)
\* a subtitle text of n characters
TextOfLen(n) == [i \in 1..n |-> "a"]

\* the detection of detect_profanity for a match over the characters
\* char_start..char_end of the text (position_start and position_end are the
\* two ends divided by the text's length)
DetectionAt(char_start, char_end) ==
    [word |-> WordFuck, matched |-> WordFuck, category |-> "language.profanity.severe",
     confidence |-> 95, char_start |-> char_start, char_end |-> char_end]

\* overlay_engine.process_subtitle, the timing of the overlay of one detection
ComputeTiming ==
    /\ ~timing.done
    /\ LET command == OverlayCommand(DetectionAt(timing.char_start, timing.char_end),
                                     TextOfLen(timing.text_len),
                                     timing.start_ms, timing.end_ms)
       IN timing' = [timing EXCEPT !.done = TRUE,
                                   !.overlay = [start_ms |-> command.start_ms,
                                                end_ms |-> command.end_ms]]
    /\ UNCHANGED <<connected, sessionVars, cueVars, engineVars, last_subtitles, recVars,
                   precVars, sent, capture, advisor, catalogue, matcher>>

\* ------------------------------ audio/fingerprint.py (FingerprintMatcher)
\* the variables a call on a matcher leaves alone
NotMatcher == <<connected, sessionVars, cueVars, engineVars, last_subtitles, recVars,
                precVars, sent, capture, advisor, catalogue, timing>>

\* fingerprints are byte strings; np.frombuffer(fp, dtype=np.uint32) groups
\* them four by four into words (a word is kept as its four bytes) and
\* raises when the length is not a multiple of four
FromBuffer(fp) ==
    [ok |-> Len(fp) % 4 = 0,
     words |-> [i \in 1..(Len(fp) \div 4) |-> SubSeq(fp, 4 * i - 3, 4 * i)]]

\* bin(a ^ b).count('1') for two bytes
RECURSIVE BitDiff(_, _)
BitDiff(a, b) ==
    IF a = 0 /\ b = 0 THEN 0
    ELSE (IF a % 2 # b % 2 THEN 1 ELSE 0) + BitDiff(a \div 2, b \div 2)

\* the set bits of the xor of two words
WordDiff(w1, w2) ==
    BitDiff(w1[1], w2[1]) + BitDiff(w1[2], w2[2]) + BitDiff(w1[3], w2[3]) + BitDiff(w1[4], w2[4])

\* FingerprintMatcher._compare_fingerprints: the similarity as a fraction
_compare_fingerprints(fp1, fp2) ==
    IF fp1 = <<>> \/ fp2 = <<>> THEN <<0, 1>>
    ELSE LET arr1 == FromBuffer(fp1)
             arr2 == FromBuffer(fp2)
             min_len == Min(Len(arr1.words), Len(arr2.words))
         IN IF ~arr1.ok \/ ~arr2.ok THEN <<0, 1>>
            ELSE IF min_len = 0 THEN <<0, 1>>
            ELSE LET diff_bits == Sum([i \in 1..min_len |->
                                          WordDiff(arr1.words[i], arr2.words[i])])
                     total_bits == min_len * 32
                 IN <<total_bits - diff_bits, total_bits>>

\* sorted(markers, key=lambda m: m.time_ms), a stable sort
RECURSIVE InsertMarker(_, _)
InsertMarker(x, s) ==
    IF s = <<>> THEN <<x>>
    ELSE IF x.time_ms < Head(s).time_ms THEN <<x>> \o s
    ELSE <<Head(s)>> \o InsertMarker(x, Tail(s))

RECURSIVE SortedByTime(_)
SortedByTime(s) ==
    IF s = <<>> THEN <<>>
    ELSE InsertMarker(s[Len(s)], SortedByTime(SubSeq(s, 1, Len(s) - 1)))

\* FingerprintMatcher.__init__: markers is kept sorted by time_ms, and the
\* lookup list _marker_fps is built from the argument as it was given
FingerprintMatcherInit(markers) ==
    [markers |-> SortedByTime(markers), _marker_fps |-> markers]

\* the loop of FingerprintMatcher.match from entry i on
RECURSIVE MatchFrom(_, _, _, _)
MatchFrom(live_fp, fps, i, best) ==
    IF i > Len(fps) THEN best
    ELSE LET score == _compare_fingerprints(live_fp, fps[i].fingerprint)
         IN IF FracGT(score, best.score)
            THEN MatchFrom(live_fp, fps, i + 1,
                           [found |-> TRUE, time_ms |-> fps[i].time_ms, score |-> score])
            ELSE MatchFrom(live_fp, fps, i + 1, best)

\* FingerprintMatcher.match: live_fp is the fingerprint of the audio (empty
\* when fingerprinting failed), available tells whether a fingerprinter exists
FingerprintMatch(m, available, live_fp, threshold) ==
    IF ~available \/ live_fp = <<>> THEN [found |-> FALSE, time_ms |-> 0, score |-> threshold]
    ELSE MatchFrom(live_fp, m._marker_fps, 1,
                   [found |-> FALSE, time_ms |-> 0, score |-> threshold])

\* one call of match on a matcher built from the markers
MatchCall ==
    /\ matcher.op = "match"
    /\ ~matcher.done
    /\ matcher' = [matcher EXCEPT
                      !.done = TRUE,
                      !.result = FingerprintMatch(FingerprintMatcherInit(matcher.markers),
                                                  matcher.available, matcher.live_fp,
                                                  matcher.threshold)]
    /\ UNCHANGED NotMatcher

\* ---------------------- audio/microsignatures.py (MicrosignatureMatcher)
\* MicrosignatureMatcher.type_weights, in tenths
TypeWeight(sig_type) ==
    CASE sig_type = "onset" -> 20
      [] sig_type = "voice" -> 15
      [] sig_type = "silence" -> 15
      [] sig_type = "peak" -> 10
      [] sig_type = "flux" -> 8
      [] OTHER -> 10

\* the first live signature, from index i on, that is not matched yet, has
\* the type of ref_sig and lies within the match window of adjusted_time; 0
\* when there is none
RECURSIVE FirstLive(_, _, _, _, _)
FirstLive(live, i, matched_live, ref_sig, adjusted_time) ==
    IF i > Len(live) THEN 0
    ELSE IF /\ i \notin matched_live
            /\ live[i].sig_type = ref_sig.sig_type
            /\ Abs(live[i].time_ms - adjusted_time) <= MATCH_WINDOW_MS
         THEN i
         ELSE FirstLive(live, i + 1, matched_live, ref_sig, adjusted_time)

\* weight * precision * strength of one match, in units of 1 / 200000:
\* the weight in tenths, the precision in hundredths, twice the mean strength
\* in hundredths
MatchScore(ref_sig, live_sig, adjusted_time) ==
    TypeWeight(ref_sig.sig_type)
        * (MATCH_WINDOW_MS - Abs(live_sig.time_ms - adjusted_time))
        * (ref_sig.strength + live_sig.strength)

\* the loop of _score_alignment from reference signature r on
RECURSIVE ScoreFrom(_, _, _, _, _)
ScoreFrom(reference, live, offset_ms, r, matched_live) ==
    IF r > Len(reference) THEN 0
    ELSE LET adjusted_time == reference[r].time_ms - offset_ms
             i == FirstLive(live, 1, matched_live, reference[r], adjusted_time)
         IN IF i = 0 THEN ScoreFrom(reference, live, offset_ms, r + 1, matched_live)
            ELSE MatchScore(reference[r], live[i], adjusted_time)
                 + ScoreFrom(reference, live, offset_ms, r + 1, matched_live \cup {i})

\* MicrosignatureMatcher._score_alignment
_score_alignment(reference, live, offset_ms) == ScoreFrom(reference, live, offset_ms, 1, {})

\* one call of _score_alignment
ScoreCall ==
    /\ matcher.op = "score"
    /\ ~matcher.done
    /\ matcher' = [matcher EXCEPT
                      !.done = TRUE,
                      !.result = _score_alignment(matcher.reference, matcher.live,
                                                  matcher.offset_ms)]
    /\ UNCHANGED NotMatcher

\* ------------------------------------- subtitle_sync.py (the engine on its own)
\* the variables a call on the subtitle sync engine leaves alone
NotSubtitleEngine == <<connected, sessionVars, cueVars, sync_engine, engines, stop_pending,
                       last_subtitles, recVars, precVars, svcVars>>

\* create_subtitle_sync: an engine for a cue file
EngineCreate(file) ==
    /\ subtitle_sync_engine = NoSubtitleEngine
    /\ subtitle_sync_engine' = NewSubtitleSyncEngine(file)
    /\ sent' = <<>>
    /\ UNCHANGED NotSubtitleEngine

\* the arguments of a call of process_subtitle and the SyncResult r.result
\* it returned
SyncResultLog(r, text, video_time_ms, stale) ==
    [type |-> "SyncResult", text |-> text, video_time_ms |-> video_time_ms,
     stale |-> stale, synced |-> r.result.synced, offset_ms |-> r.result.offset_ms,
     confidence |-> r.result.confidence, method |-> r.result.method]

\* the engine and the log after a call that came out as r
EngineAfter(r, text, video_time_ms, stale) ==
    /\ subtitle_sync_engine' = r.eng
    /\ sent' = << SyncResultLog(r, text, video_time_ms, stale) >>

\* SubtitleSyncEngine.process_subtitle; sent holds the call's arguments and
\* the SyncResult it returned
EngineSubtitle(text, video_time_ms, stale) ==
    /\ subtitle_sync_engine # NoSubtitleEngine
    /\ EngineAfter(process_subtitle_sync(subtitle_sync_engine, text, video_time_ms, stale),
                   text, video_time_ms, stale)
    /\ UNCHANGED NotSubtitleEngine

\* SubtitleSyncEngine.reset
EngineReset ==
    /\ subtitle_sync_engine # NoSubtitleEngine
    /\ subtitle_sync_engine' = NewSubtitleSyncEngine(subtitle_sync_engine.file)
    /\ sent' = <<>>
    /\ UNCHANGED NotSubtitleEngine

\* ------------------------------------------------------------ specifications
\* Spec: cue playback of one session against the timestamp-only cue files:
\* cue file loads and mode changes, position and playback messages (seeks
\* included), the cue evaluation tasks they create, and the disconnect.
Positions == {2600, 4100}
SeekPositions == {0, 1000}
PlaybackStates == {"playing", "paused", "seeked"}
ModeRequests == {<<"cue_file", "s3">>, <<"cue_file", "two">>, <<"realtime", None>>}

NextPosition == \E p \in Positions : Position(p)
NextPlayback ==
    \E st \in PlaybackStates :
        \E p \in (IF st = "seeked" THEN SeekPositions ELSE Positions) : Playback(st, p, "x")
NextSetMode == \E r \in ModeRequests : SetMode(r[1], r[2], "ok", "modeSet")
NextCheckCues == \E k \in 1..Len(tasks) : CheckCuesStep(k)

Next ==
    \/ NextPosition
    \/ NextPlayback
    \/ NextSetMode
    \/ NextCheckCues
    \/ Disconnect

Spec == Init /\ [][Next]_vars


\* SpecSync: sync establishment of one session: loads of cue files with
\* subtitle markers, with fingerprint markers and with neither, live
\* subtitles, the audio engine's results and ticks, seeks, and the disconnect
\* with the engine's stop.
SyncModeRequests == {<<"cue_file", "s3">>, <<"cue_file", "subs">>, <<"cue_file", "fp">>}
EngineOutcomes == {"ok", "nocapture", "error"}
SyncSubtitles == {<<TxtHelloLive, 57000>>, <<TxtHelloLive, 200000>>, <<TxtShort, 57000>>}
SyncSeeks == {1000}
EngineTimes == {3500}

SyncSetMode ==
    \E r \in SyncModeRequests, o \in EngineOutcomes : SetMode(r[1], r[2], o, "cueFileLoaded")
SyncSubtitle ==
    \E sub \in SyncSubtitles, stale \in BOOLEAN :
        Subtitle(sub[1], sub[2], sub[2] + 2000, sub[2], stale)
SyncSeek == \E p \in SyncSeeks : Playback("seeked", p, "x")
SyncAudioResult ==
    \E e \in 1..Len(engines), st \in {"synced", "lost"} : AudioSyncResult(e, st)
SyncEngineTick == \E e \in 1..Len(engines), t \in EngineTimes : EngineTick(e, t)

NextSync ==
    \/ SyncSetMode
    \/ SyncSubtitle
    \/ SyncSeek
    \/ SyncAudioResult
    \/ SyncEngineTick
    \/ Disconnect
    \/ StopSyncEngine

SpecSync == Init /\ [][NextSync]_vars

\* SpecDedup: the subtitle handler of one session fed with two captions as
\* playback advances in steps of 150 or 300 ms from the last accepted
\* caption, or after a jump back to the first position.
DedupTexts == {TxtFuck, TxtMorning}
DedupDeltas == {150, 300}
DedupPositions ==
    LET base == IF last_subtitles = <<>> THEN 10000
                ELSE last_subtitles[Len(last_subtitles)].time
    IN {10000} \cup {base + d : d \in {x \in DedupDeltas : base + x <= 10000 + MaxAdvance * 150}}

DedupSubtitle ==
    \E text \in DedupTexts, p \in DedupPositions : Subtitle(text, p, p + 2000, p, FALSE)

NextDedup == DedupSubtitle

SpecDedup == Init /\ [][NextDedup]_vars

\* SpecRec: subtitle-driven recording of one session: startRecording and
\* stopRecording in any order, live subtitles, and position updates.
RecTitles == {TitleMovie, <<>>}
RecTexts == {TxtFuck, TxtMorning}
RecPositions == {10000, 20000}
RecSubtitlePositions == {10000}

RecStart == \E title \in RecTitles : StartRecording(title, "x")
RecSubtitle ==
    \E text \in RecTexts, p \in RecSubtitlePositions : Subtitle(text, p, p + 2000, p, FALSE)
RecPosition == \E p \in RecPositions : Position(p)

NextRec ==
    \/ RecStart
    \/ StopRecording
    \/ RecSubtitle
    \/ RecPosition

SpecRec == Init /\ [][NextRec]_vars

\* SpecRecCtl: the recording controls of one session: one title, started,
\* paused, resumed, aborted and stopped in any order, while one caption is
\* shown at 10000 or at 10400 (the first also re-sent when playback has
\* reached 10400) and playback reports its position.
CtlTexts == {TxtFuck}
CtlPositions == {10000}
CtlResumePositions == {20000}
CtlSubtitleInputs ==
    {[position_ms |-> 10000, start_ms |-> 10000],
     [position_ms |-> 10400, start_ms |-> 10000],
     [position_ms |-> 10400, start_ms |-> 10400]}

CtlStart == StartRecording(TitleMovie, "x")
CtlSubtitle ==
    \E text \in CtlTexts, i \in CtlSubtitleInputs :
        Subtitle(text, i.start_ms, i.start_ms + 2000, i.position_ms, FALSE)
CtlPosition == \E p \in CtlPositions : Position(p)
CtlResume == \E p \in CtlResumePositions : ResumeRecording(p)

NextRecCtl ==
    \/ CtlStart
    \/ StopRecording
    \/ AbortRecording
    \/ PauseRecording
    \/ CtlResume
    \/ CtlSubtitle
    \/ CtlPosition

SpecRecCtl == Init /\ [][NextRecCtl]_vars

\* SpecTeardown: one client that loads cue files with fingerprint markers
\* (the audio engine starts, with or without its capture), starts and stops
\* precision recordings, and disconnects; the collector thread and the
\* scheduled stop of the audio engine run on their own.  The event loop runs
\* every task it was given, so the engine's stop is weakly fair.
TeardownModeRequests == {<<"cue_file", "fp">>, <<"realtime", None>>}

TeardownSetMode ==
    \E r \in TeardownModeRequests, o \in EngineOutcomes : SetMode(r[1], r[2], o, "modeSet")
TeardownStart ==
    \E capture_ok, vol_ok \in BOOLEAN, rid \in 1..MaxRecordings :
        StartPrecisionRecording(TitleMovie, 0, TRUE, capture_ok, vol_ok, rid)
TeardownStop ==
    \E raises \in BOOLEAN : StopPrecisionRecording(0, raises, <<Word(WordShit, 2500, 2700, 90)>>)

NextTeardown ==
    \/ TeardownSetMode
    \/ TeardownStart
    \/ CollectAudio
    \/ TeardownStop
    \/ Disconnect
    \/ StopSyncEngine

SpecTeardown == Init /\ [][NextTeardown]_vars /\ WF_vars(StopSyncEngine)

\* SpecCapture: one AudioCapture started on any backend, its capture thread,
\* a consumer taking chunks, and stop with a join that ends or times out.
NextCapture ==
    \/ \E available \in BOOLEAN, backend \in Backends : CaptureStart(available, backend)
    \/ CaptureLoop
    \/ CapturePut
    \/ CaptureGetNowait
    \/ CaptureRetry
    \/ MicCallback
    \/ MicLoop
    \/ get_audio_chunk
    \/ CaptureStopBegin
    \/ \E timed_out \in BOOLEAN : CaptureStopEnd(timed_out)

SpecCapture == Init /\ [][NextCapture]_vars

\* SpecAdvisor: one subtitle with one detection goes through the loop of
\* overlay_engine.process_subtitle, for every category, text, advisor
\* availability and advisor outcome.
InitAdvisor ==
    /\ InitSession
    /\ capture = NewCapture
    /\ advisor \in AdvisorInputs
    /\ catalogue = NewCueManager
    /\ timing = NoTiming
    /\ matcher = NoCall

SpecAdvisor == InitAdvisor /\ [][ProcessDetection]_vars

\* SpecCatalogue: loads, writes and index refreshes on the catalogue manager
\* in any order.
NextCatalogue ==
    \/ \E n \in Stems : CatalogueLoad(n)
    \/ \E d \in Docs, n \in Stems : add_cue_file(d, n)
    \/ refresh_index

SpecCatalogue == Init /\ [][NextCatalogue]_vars

\* SpecEngine: a subtitle sync engine for a file with one subtitle marker at
\* 60 s, fed with live subtitles that match the marker fully, partly or not
\* at all, are too short or normalise to nothing, at the marker's time, with
\* or without 30 s of silence before; and reset.
EngineFiles == {"subs", "noword"}
EngineTexts == {TxtHelloLive, TxtHelloThree, TxtShort, TxtPunct}
EngineVideoTimes == {60000}

NextEngine ==
    \/ \E f \in EngineFiles : EngineCreate(f)
    \/ \E text \in EngineTexts, t \in EngineVideoTimes, stale \in BOOLEAN :
           EngineSubtitle(text, t, stale)
    \/ EngineReset

SpecEngine == Init /\ [][NextEngine]_vars

\* SpecDrift: the same engine fed with the matching subtitle only, at
\* playback times that put the marker 0, 9 or 18 s away.
DriftVideoTimes == {60000, 51000, 42000}

NextDrift ==
    \/ EngineCreate("subs")
    \/ \E t \in DriftVideoTimes : EngineSubtitle(TxtHelloLive, t, FALSE)
    \/ EngineReset

SpecDrift == Init /\ [][NextDrift]_vars

\* SpecTiming: one detection of one subtitle gets its overlay interval, for
\* subtitle intervals [s, e] with 0 <= s <= e and detected spans (of one
\* character or more) anywhere in a text of TimingTextLen characters.
TimingTextLen == 4
TimingStarts == {0, 100, 300, 1000}
TimingDurations == {0, 100, 500, 2000}
TimingInputs ==
    {[start_ms |-> s, end_ms |-> s + d, char_start |-> sp[1], char_end |-> sp[2],
      text_len |-> TimingTextLen, done |-> FALSE, overlay |-> [start_ms |-> 0, end_ms |-> 0]] :
        s \in TimingStarts, d \in TimingDurations,
        sp \in {x \in (0..TimingTextLen) \X (0..TimingTextLen) : x[1] < x[2]}}

InitTiming ==
    /\ InitSession
    /\ capture = NewCapture
    /\ advisor = NoDetection
    /\ catalogue = NewCueManager
    /\ timing \in TimingInputs
    /\ matcher = NoCall

SpecTiming == InitTiming /\ [][ComputeTiming]_vars

\* SpecFingerprint: one call of FingerprintMatcher.match, for marker lists of
\* up to MaxMarkers markers in any order and a live fingerprint of one word.
MaxMarkers == 3
FpZero == <<0, 0, 0, 0>>
FpOne == <<1, 0, 0, 0>>
FpHalf == <<255, 255, 0, 0>>
FpFar == <<255, 255, 255, 255>>
FpLong == <<0, 0, 0, 0, 255, 255, 255, 255>>
FpMarker(time_ms, fingerprint) == [time_ms |-> time_ms, fingerprint |-> fingerprint]
FpMarkers ==
    {FpMarker(1000, FpZero), FpMarker(2000, FpZero), FpMarker(2000, FpOne),
     FpMarker(3000, FpHalf), FpMarker(1000, FpFar), FpMarker(3000, FpLong)}
FpMarkerLists == UNION {[1..n -> FpMarkers] : n \in 0..MaxMarkers}
FpLive == {FpZero, FpOne, <<>>}
FpThresholds == {<<1, 2>>}
MatchInputs ==
    {[op |-> "match", done |-> FALSE, markers |-> ms, available |-> a, live_fp |-> l,
      threshold |-> th, result |-> [found |-> FALSE, time_ms |-> 0, score |-> th]] :
        ms \in FpMarkerLists, a \in BOOLEAN, l \in FpLive, th \in FpThresholds}

InitFingerprint ==
    /\ InitSession
    /\ capture = NewCapture
    /\ advisor = NoDetection
    /\ catalogue = NewCueManager
    /\ timing = NoTiming
    /\ matcher \in MatchInputs

SpecFingerprint == InitFingerprint /\ [][MatchCall]_vars

\* SpecScore: one call of MicrosignatureMatcher._score_alignment, for
\* reference and live sequences in time order of up to MaxSignatures
\* signatures and two candidate offsets.
MaxSignatures == 3
Signature(time_ms, sig_type, strength) ==
    [time_ms |-> time_ms, sig_type |-> sig_type, strength |-> strength]
LiveSignatures ==
    {Signature(910, "onset", 50), Signature(1000, "onset", 100),
     Signature(1090, "onset", 100), Signature(1000, "peak", 100)}
ReferenceSignatures ==
    {Signature(1000, "onset", 100), Signature(1050, "onset", 100), Signature(1050, "peak", 80)}
InTimeOrder(s) == \A i \in 1..(Len(s) - 1) : s[i].time_ms <= s[i + 1].time_ms
SequencesOf(sigs, n) == {s \in UNION {[1..k -> sigs] : k \in 0..n} : InTimeOrder(s)}
ScoreOffsets == {0, 50}
ScoreInputs ==
    {[op |-> "score", done |-> FALSE, reference |-> ref, live |-> live, offset_ms |-> o,
      result |-> 0] :
        ref \in SequencesOf(ReferenceSignatures, 2) \ {<<>>},
        live \in SequencesOf(LiveSignatures, MaxSignatures), o \in ScoreOffsets}

InitScore ==
    /\ InitSession
    /\ capture = NewCapture
    /\ advisor = NoDetection
    /\ catalogue = NewCueManager
    /\ timing = NoTiming
    /\ matcher \in ScoreInputs

SpecScore == InitScore /\ [][ScoreCall]_vars

\* SpecSyncPlay: playback of the cue file with subtitle markers: the load,
\* the live subtitle that matches the marker 3 s ahead, position updates and
\* the cue evaluation tasks they create.
SyncPlayPositions == {0, 2600}
SyncPlayLoad == SetMode("cue_file", "subs", "ok", "cueFileLoaded")
SyncPlaySubtitle == \E stale \in BOOLEAN : Subtitle(TxtHelloLive, 57000, 59000, 57000, stale)
SyncPlayPosition == \E p \in SyncPlayPositions : Position(p)

NextSyncPlay ==
    \/ SyncPlayLoad
    \/ SyncPlaySubtitle
    \/ SyncPlayPosition
    \/ NextCheckCues

SpecSyncPlay == Init /\ [][NextSyncPlay]_vars

\* SpecReload: playback across the load of another timestamp-only cue file
\* that uses the same cue ids at other times: loads of the two files,
\* position updates, their cue evaluation tasks, and seeks.
ReloadRequests == {<<"cue_file", "two">>, <<"cue_file", "late">>}
ReloadPositions == {2600}
ReloadSeeks == {3500}

ReloadSetMode == \E r \in ReloadRequests : SetMode(r[1], r[2], "ok", "cueFileLoaded")
ReloadPosition == \E p \in ReloadPositions : Position(p)
ReloadSeek == \E p \in ReloadSeeks : Playback("seeked", p, "x")

NextReload ==
    \/ ReloadSetMode
    \/ ReloadPosition
    \/ ReloadSeek
    \/ NextCheckCues

SpecReload == Init /\ [][NextReload]_vars

\* SpecPrecCtl: the precision recorder driven by one client that names the
\* recording it stops or aborts: start requests, the collector thread, and
\* stop and abort requests for the active recording or for an earlier one.
PrecCtlStart ==
    \E rid \in 1..MaxRecordings : StartPrecisionRecording(TitleMovie, 0, FALSE, TRUE, TRUE, rid)
PrecCtlStop ==
    \E recording_id \in 0..MaxRecordings :
        StopPrecisionRecording(recording_id, FALSE, <<Word(WordShit, 2500, 2700, 90)>>)
PrecCtlAbort == \E recording_id \in 0..MaxRecordings : AbortPrecisionRecording(recording_id)

NextPrecCtl ==
    \/ PrecCtlStart
    \/ CollectAudio
    \/ PrecCtlStop
    \/ PrecCtlAbort

SpecPrecCtl == Init /\ [][NextPrecCtl]_vars

\* SpecPrecStop: one precision recording over its capture: the capture
\* thread queues up to MaxCaptured chunks, the collector thread takes them,
\* and stop_recording runs in its three stages, in any interleaving.
MaxCaptured == 3
PrecStopStart == recorder.recordings = <<>> /\ RecorderStart(1)
PrecStopLoop == (capture.running => capture.produced < MaxCaptured) /\ CaptureLoop
PrecStopDrain == \E timed_out \in BOOLEAN : RecorderStopDrain(timed_out)
PrecStopEnd ==
    \E raises \in BOOLEAN : RecorderStopEnd(raises, <<Word(WordShit, 2500, 2700, 90)>>)

NextPrecStop ==
    \/ PrecStopStart
    \/ PrecStopLoop
    \/ CapturePut
    \/ CollectorTest
    \/ CollectorGet
    \/ RecorderStopBegin
    \/ PrecStopDrain
    \/ PrecStopEnd

SpecPrecStop == Init /\ [][NextPrecStop]_vars

\* SpecRecordPlay: a title is recorded by the precision recorder and its cue
\* file is then loaded and played in cue_file mode: start and stop requests
\* of the recorder, its collector, loads of the recorded file, position
\* updates around the cue, and their cue evaluation tasks.
RecordPlayPositions == {2600, 3000}

RecordPlayLoad == SetMode("cue_file", RecordedCueFileId, "ok", "cueFileLoaded")
RecordPlayPosition == \E p \in RecordPlayPositions : Position(p)

NextRecordPlay ==
    \/ PrecCtlStart
    \/ CollectAudio
    \/ PrecCtlStop
    \/ RecordPlayLoad
    \/ RecordPlayPosition
    \/ NextCheckCues

SpecRecordPlay == Init /\ [][NextRecordPlay]_vars

\* SpecFailedLoad: setMode and loadCueFile requests that succeed or fail (a
\* mode string that is no SessionMode, a cue file that does not exist)
\* during playback: the requests, position updates and their cue evaluation
\* tasks.
FailedLoadRequests ==
    {<<"realtime", None, "modeSet">>, <<"cue_file", "s3", "modeSet">>,
     <<"bogus", "s3", "modeSet">>, <<"hybrid", "missing", "modeSet">>,
     <<"cue_file", "s3", "cueFileLoaded">>, <<"cue_file", "fp", "cueFileLoaded">>,
     <<"cue_file", "missing", "cueFileLoaded">>}
FailedLoadPositions == {2600}

FailedLoadRequest ==
    \E r \in FailedLoadRequests, o \in EngineOutcomes : SetMode(r[1], r[2], o, r[3])
FailedLoadPosition == \E p \in FailedLoadPositions : Position(p)

NextFailedLoad ==
    \/ FailedLoadRequest
    \/ FailedLoadPosition
    \/ NextCheckCues

SpecFailedLoad == Init /\ [][NextFailedLoad]_vars

\* ------------------------------------------------------------------ claims
MsgsOf(msgs, type, cue_id) ==
    {i \in 1..Len(msgs) : msgs[i].type = type /\ msgs[i].cue_id = cue_id}

\* this step is a run of the cue evaluation task k
TaskRan(k) ==
    /\ k \in 1..Len(tasks)
    /\ \/ tasks' = RemoveAt(tasks, k)
       \/ Len(tasks') = Len(tasks) /\ tasks'[k].next > tasks[k].next

\* the cues that the run of task k evaluated in this step, in the state
\* before the step: the cue file's cues from the task's position in the list
\* up to the cue it sent a message for (or to the end of the list)
EvaluatedBy(k) ==
    LET file == IF tasks[k].next = 0 THEN cue_file_id ELSE tasks[k].file
        cues == _load_cue_file(file).cues
        from == IF tasks[k].next = 0 THEN 1 ELSE tasks[k].next
        upto == IF Len(tasks') = Len(tasks) THEN tasks'[k].next - 1 ELSE Len(cues)
    IN {cues[h] : h \in from..upto}

\* C1: a position update evaluated at effective time t starts every cue it
\* evaluates whose id is not in triggered_cues and for which
\* start_ms <= t + lookahead and t < end_ms: the id enters triggered_cues and
\* active_cues and exactly one overlay start is sent for it; an overlay start
\* is sent for a cue only when its id was not in triggered_cues, so a
\* triggered cue is not started again while its id stays in the set.
C1_StartOnce ==
    [][ /\ \A k \in 1..Len(tasks) : TaskRan(k) =>
              \A cue \in EvaluatedBy(k) :
                  ( /\ cue.id \notin triggered_cues
                    /\ cue.start_ms <= tasks[k].position_ms + 500
                    /\ tasks[k].position_ms < cue.end_ms )
                  => /\ cue.id \in triggered_cues'
                     /\ cue \in active_cues'
                     /\ connected => /\ Len(sent') = 1
                                     /\ MsgsOf(sent', "overlay", cue.id) = {1}
        /\ \A c \in CueIds :
              MsgsOf(sent', "overlay", c) # {} =>
                  /\ c \notin triggered_cues
                  /\ c \in triggered_cues'
                  /\ c \in ActiveIds(active_cues')
                  /\ Cardinality(MsgsOf(sent', "overlay", c)) = 1
      ]_vars

\* a cue of the loaded file has just been started by a position update
C1_Witness ==
    /\ mode \in {"cue_file", "hybrid"}
    /\ \E i \in 1..Len(sent) :
          /\ sent[i].type = "overlay"
          /\ sent[i].cue_id \in triggered_cues \cap ActiveIds(active_cues)
    /\ \E k \in 1..Len(tasks) :
          \E cue \in Range(_load_cue_file(cue_file_id).cues) :
              /\ cue.id \in triggered_cues
              /\ cue.start_ms <= tasks[k].position_ms + 500
              /\ tasks[k].position_ms < cue.end_ms

\* C2: when a position update evaluated at t reaches a cue that is in
\* active_cues with t >= end_ms, the cue leaves active_cues and exactly one
\* cueEnd with its id is sent; a cueEnd is sent only for a cue that was
\* active and no longer is.  Scenario S3: on the file "s3" (cue_0001,
\* 3000-4000, no sync data) the update at 2600 sends the overlay of cue_0001
\* and the update at 4100 sends its cueEnd.
C2_EndOnce ==
    [][ /\ \A k \in 1..Len(tasks) : TaskRan(k) =>
              \A cue \in EvaluatedBy(k) :
                  (cue.id \in ActiveIds(active_cues) /\ tasks[k].position_ms >= cue.end_ms)
                  => /\ cue.id \notin ActiveIds(active_cues')
                     /\ connected => /\ Len(sent') = 1
                                     /\ MsgsOf(sent', "cueEnd", cue.id) = {1}
        /\ \A c \in CueIds :
              MsgsOf(sent', "cueEnd", c) # {} =>
                  /\ \E a \in active_cues :
                        /\ a.id = c
                        /\ \E k \in 1..Len(tasks) :
                              TaskRan(k) /\ tasks[k].position_ms >= a.end_ms
                  /\ c \notin ActiveIds(active_cues')
                  /\ Cardinality(MsgsOf(sent', "cueEnd", c)) = 1
        /\ \A k \in 1..Len(tasks) :
              (TaskRan(k) /\ tasks[k].next = 0 /\ cue_file_id = "s3" /\ connected) =>
                  /\ (tasks[k].position_ms = 2600 /\ "cue_0001" \notin triggered_cues)
                        => MsgsOf(sent', "overlay", "cue_0001") = {1}
                  /\ (tasks[k].position_ms = 4100 /\ "cue_0001" \in ActiveIds(active_cues))
                        => MsgsOf(sent', "cueEnd", "cue_0001") = {1}
      ]_vars

\* scenario S3 has run to its end: the cueEnd of cue_0001 was just sent at 4100
C2_Witness ==
    /\ cue_file_id = "s3"
    /\ last_position_ms = 4100
    /\ "cue_0001" \in triggered_cues
    /\ active_cues = {}
    /\ MsgsOf(sent, "cueEnd", "cue_0001") = {1}

\* C3: at teardown, every cue whose overlay start was sent has had a cueEnd
\* sent since, or is still in active_cues.
C3_EndedOrActive ==
    ~connected => dispatched \subseteq ActiveIds(active_cues)

\* this step is a seek to p (from another last position)
SeekTo(p) == last_position_ms # p /\ last_position_ms' = p /\ p \in SeekPositions

\* C4: a seek to p removes every cue with start_ms > p from triggered_cues,
\* removes every active cue with end_ms <= p or start_ms > p from active_cues
\* and sends a cueEnd for it.
C4_SeekEnds ==
    [][ \A p \in SeekPositions : SeekTo(p) =>
            /\ \A cue \in Range(_load_cue_file(cue_file_id).cues) :
                  cue.start_ms > p => cue.id \notin triggered_cues'
            /\ \A a \in active_cues :
                  (a.end_ms <= p \/ a.start_ms > p) =>
                      /\ a.id \notin ActiveIds(active_cues')
                      /\ MsgsOf(sent', "cueEnd", a.id) # {}
      ]_vars

\* C5: after a seek to 0 triggered_cues is empty and a cueEnd was sent for
\* every cue that was active with end_ms > 0.
C5_SeekZero ==
    [][ SeekTo(0) =>
            /\ triggered_cues' = {}
            /\ \A a \in active_cues : a.end_ms > 0 => MsgsOf(sent', "cueEnd", a.id) # {}
      ]_vars

\* C6: after a cue file load, a cue of the loaded file is triggered only by a
\* position update processed after the load.
C6_LoadClears ==
    \A cue \in Range(_load_cue_file(cue_file_id).cues) : cue.id \notin staleTriggered

\* this step is a successful load of a cue file by setMode or loadCueFile
LoadStep ==
    /\ sent' # <<>>
    /\ sent'[Len(sent')].type \in {"modeSet", "cueFileLoaded"}
    /\ sent'[Len(sent')].success
    /\ mode' \in {"cue_file", "hybrid"}
    /\ cue_file_id' \in DOMAIN Catalogue

\* the syncState messages with the given state among msgs
SyncStates(msgs, state) ==
    {i \in 1..Len(msgs) : msgs[i].type = "syncState" /\ msgs[i].state = state}

\* C7: a cue file load selects the sync method: (1) with subtitle markers a
\* fresh subtitle sync engine for the file is attached, syncState syncing is
\* sent and session.synced is false; (2) else with fingerprint markers the
\* audio engine of the file is attached and running (or, when it could not be
\* started, the session falls back to timestamp sync); (3) else the session
\* is synced in timestamp mode with offset 0 and syncState synced is sent.
C7_SyncPriority ==
    [][ LoadStep =>
          LET file == Catalogue[cue_file_id']
          IN IF file.subtitles # <<>>
             THEN /\ subtitle_sync_engine'.file = cue_file_id'
                  /\ ~subtitle_sync_engine'.synced
                  /\ SyncStates(sent', "syncing") # {}
                  /\ ~synced'
             ELSE IF file.has_markers
             THEN \/ /\ sync_engine' \in 1..Len(engines')
                     /\ engines'[sync_engine'].file = cue_file_id'
                     /\ engines'[sync_engine'].running
                  \/ /\ sync_engine' = 0
                     /\ synced'
                     /\ SyncStates(sent', "synced") # {}
             ELSE /\ synced'
                  /\ sync_offset_ms' = 0
                  /\ SyncStates(sent', "synced") # {}
                  /\ \A i \in SyncStates(sent', "synced") :
                        sent'[i].mode = "timestamp" /\ sent'[i].offset_ms = 0
      ]_vars

\* the indices of the markers of a file that lie within 120 s of the video
\* time and whose normalised words overlap those of the text by more than 0.6
MatchingMarkers(file, text, video_time_ms) ==
    LET subs == Catalogue[file].subtitles
    IN {i \in 1..Len(subs) :
          /\ subs[i].time_ms >= video_time_ms - 120000
          /\ subs[i].time_ms <= video_time_ms + 120000
          /\ FracGT(TextSimilarity(NormalizeText(text), NormalizeText(subs[i].text)),
                    <<6, 10>>)}

\* the first of the best-scoring matching markers
BestMarker(file, text, video_time_ms) ==
    LET subs == Catalogue[file].subtitles
        score(i) == TextSimilarity(NormalizeText(text), NormalizeText(subs[i].text))
        cand == MatchingMarkers(file, text, video_time_ms)
    IN subs[CHOOSE i \in cand :
                \A j \in cand : /\ ~FracGT(score(j), score(i))
                                /\ (j < i => FracGT(score(i), score(j)))]

\* this step accepted the live subtitle sub = <<text, position>> into the ring
Accepted(sub) ==
    last_subtitles' = Append(last_subtitles, [text |-> sub[1], time |-> sub[2]])

\* C9: in cue_file mode with a subtitle sync engine that is not synced, an
\* accepted live subtitle of at least 8 characters that matches a subtitle
\* marker within 120 s of the video time makes the engine synced with offset
\* marker_time - video_time and confidence 0.6, makes the session synced with
\* sync_offset_ms equal to that offset, and sends syncState synced carrying it.
C9_SubtitleSync ==
    [][ \A sub \in SyncSubtitles :
          ( /\ Accepted(sub)
            /\ mode = "cue_file"
            /\ subtitle_sync_engine # NoSubtitleEngine
            /\ ~subtitle_sync_engine.synced
            /\ Len(sub[1]) >= 8
            /\ MatchingMarkers(subtitle_sync_engine.file, sub[1], sub[2]) # {} )
          => LET offset == BestMarker(subtitle_sync_engine.file, sub[1], sub[2]).time_ms
                           - sub[2]
             IN /\ subtitle_sync_engine'.synced
                /\ subtitle_sync_engine'.offset_ms = offset
                /\ subtitle_sync_engine'.confidence = 60
                /\ synced'
                /\ sync_offset_ms' = offset
                /\ \E i \in SyncStates(sent', "synced") : sent'[i].offset_ms = offset
      ]_vars

\* scenario S4 has happened: the live subtitle at 57000 matched the marker at
\* 60000 and the session was declared synced with offset 3000, confidence 0.6
C9_Witness ==
    /\ subtitle_sync_engine.synced
    /\ subtitle_sync_engine.offset_ms = 3000
    /\ subtitle_sync_engine.confidence = 60
    /\ synced
    /\ sync_offset_ms = 3000
    /\ \E i \in SyncStates(sent, "synced") :
          sent[i].offset_ms = 3000 /\ sent[i].confidence = 60

\* the overlay messages among msgs
Overlays(msgs) == {i \in 1..Len(msgs) : msgs[i].type = "overlay"}

\* C8: a subtitle message is dropped exactly when a retained entry has the
\* same text and a position less than 300 ms away: a dropped message sends
\* nothing and changes nothing (ring, sync state and recording included); any
\* other message is appended to the ring, which keeps the last 10 accepted
\* entries.  Scenario S2: the caption of S1 at 10000 sends one overlay and
\* the same caption at 10150 sends none.
C8_Dedup ==
    [][ \A text \in DedupTexts, p \in DedupPositions :
          Subtitle(text, p, p + 2000, p, FALSE) =>
            LET dup == \E i \in 1..Len(last_subtitles) :
                          /\ last_subtitles[i].text = text
                          /\ p - last_subtitles[i].time < 300
                          /\ last_subtitles[i].time - p < 300
                app == Append(last_subtitles, [text |-> text, time |-> p])
            IN /\ dup => /\ sent' = <<>>
                         /\ UNCHANGED <<last_subtitles, subtitle_sync_engine, synced,
                                        sync_offset_ms, recVars, precVars, svcVars>>
               /\ ~dup => last_subtitles' =
                             IF Len(app) > 10 THEN SubSeq(app, Len(app) - 9, Len(app))
                             ELSE app
               /\ Len(last_subtitles') <= 10
               /\ (text = TxtFuck /\ ~dup) => Cardinality(Overlays(sent')) = 1
               /\ ( /\ text = TxtFuck
                    /\ p = 10150
                    /\ \E i \in 1..Len(last_subtitles) :
                          last_subtitles[i] = [text |-> TxtFuck, time |-> 10000] )
                  => Overlays(sent') = {}
      ]_vars

\* the ring is full and has taken the caption of S1 at 10000 again after a
\* jump back, with its overlay just sent
C8_Witness ==
    /\ Len(last_subtitles) = 10
    /\ last_subtitles[10] = [text |-> TxtFuck, time |-> 10000]
    /\ \A i \in 1..9 : last_subtitles[i].time > 10000
    /\ Overlays(sent) # {}

\* the replies of the given type among msgs
Replies(msgs, type) == {i \in 1..Len(msgs) : msgs[i].type = type}

\* C10: startRecording on a session that is already recording is answered
\* with a failure and leaves recorded_cues, recorded_subtitles,
\* recording_title and recording_start_position_ms unchanged; stopRecording
\* on a session that is not recording is answered with a failure, changes
\* nothing in the session and writes no cue file.
C10_InvalidState ==
    [][ /\ (Replies(sent', "recordingStarted") # {} /\ recording) =>
              /\ \A i \in Replies(sent', "recordingStarted") : ~sent'[i].success
              /\ UNCHANGED <<recorded_cues, recorded_subtitles, recording_title,
                             recording_start_position_ms>>
        /\ (Replies(sent', "recordingStopped") # {} /\ ~recording) =>
              /\ \A i \in Replies(sent', "recordingStopped") : ~sent'[i].success
              /\ UNCHANGED <<connected, sessionVars, cueVars, engineVars, last_subtitles,
                             recVars, precVars, svcVars>>
      ]_vars

\* C11: stopRecording on a recording session writes, under the sanitised
\* title, a cue file of version 2.0 whose cues and subtitles are the cues and
\* subtitle markers appended since startRecording, answers with success,
\* removes the temp file of the recording, and leaves the session in realtime
\* mode and not recording.
C11_StopSeals ==
    [][ (Replies(sent', "recordingStopped") # {} /\ recording) =>
            /\ \A i \in Replies(sent', "recordingStopped") : sent'[i].success
            /\ \E f \in cue_dir' :
                   /\ f.filename = SafeTitle(recording_title)
                   /\ f.version = "2.0"
                   /\ f.cues = appended.cues
                   /\ f.subtitles = appended.subtitles
            /\ SafeTitle(recording_title) \notin temp_files'
            /\ mode' = "realtime"
            /\ ~recording'
      ]_vars

\* C12: abortRecording on a recording session empties recorded_cues and
\* recorded_subtitles, resets the title, leaves the session in realtime mode
\* and not recording, and leaves no temp file of that recording.
C12_AbortDiscards ==
    [][ (Replies(sent', "recordingAborted") # {} /\ recording) =>
            /\ recorded_cues' = <<>>
            /\ recorded_subtitles' = <<>>
            /\ recording_title' = <<>>
            /\ ~recording'
            /\ mode' = "realtime"
            /\ SafeTitle(recording_title) \notin temp_files'
      ]_vars

\* the four fields of the recording that a pause retains
RetainedRecording ==
    <<recorded_cues, recorded_subtitles, recording_title, recording_start_position_ms>>

\* s is a prefix of t
IsPrefix(s, t) == Len(s) <= Len(t) /\ SubSeq(t, 1, Len(s)) = s

\* C13: pauseRecording stops the recording and retains recorded_cues,
\* recorded_subtitles, recording_title and recording_start_position_ms; while
\* the session stays not recording no step changes them (no overlay command
\* or subtitle is appended); resumeRecording keeps both lists, sets the start
\* position to the resume position exactly when recorded_cues is empty, and
\* later appends extend the same lists.
C13_PauseResume ==
    [][ /\ (Replies(sent', "recordingPaused") # {} /\ recording) =>
              ~recording' /\ UNCHANGED RetainedRecording
        /\ (~recording /\ ~recording') => UNCHANGED RetainedRecording
        /\ \A i \in Replies(sent', "recordingResumed") :
              /\ recording'
              /\ UNCHANGED <<recorded_cues, recorded_subtitles, recording_title>>
              /\ recording_start_position_ms' =
                     IF recorded_cues = <<>> THEN sent'[i].start_ms
                     ELSE recording_start_position_ms
        /\ (recording /\ recording' /\ Replies(sent', "recordingStarted") = {}) =>
              /\ IsPrefix(recorded_cues, recorded_cues')
              /\ IsPrefix(recorded_subtitles, recorded_subtitles')
      ]_vars

\* a recording with a cue was just resumed at a position other than its start
\* position
C13_Witness ==
    /\ recording
    /\ Replies(sent, "recordingResumed") # {}
    /\ recorded_cues # <<>>
    /\ recorded_subtitles # <<>>
    /\ \A i \in Replies(sent, "recordingResumed") :
           sent[i].start_ms # recording_start_position_ms

\* C14: in every sealed cue file, two distinct cues with the same word have
\* start times more than 100 ms apart.
C14_RecordingDedup ==
    \A f \in cue_dir : \A i, j \in 1..Len(f.cues) :
        (i # j /\ f.cues[i].word = f.cues[j].word) =>
            Abs(f.cues[i].start_ms - f.cues[j].start_ms) > 100

\* C15: in every sealed cue file, every cue has 0 <= start_ms <= end_ms and
\* end_ms <= the file's content duration_ms.
C15_CueInterval ==
    \A f \in cue_dir : \A i \in 1..Len(f.cues) :
        /\ 0 <= f.cues[i].start_ms
        /\ f.cues[i].start_ms <= f.cues[i].end_ms
        /\ f.cues[i].end_ms <= f.duration_ms

\* C16: in every sealed cue file the cues are in non-decreasing order of
\* start_ms and the subtitles in non-decreasing order of time_ms.
C16_SealedOrder ==
    \A f \in cue_dir :
        /\ \A i \in 1..(Len(f.cues) - 1) : f.cues[i].start_ms <= f.cues[i + 1].start_ms
        /\ \A i \in 1..(Len(f.subtitles) - 1) :
               f.subtitles[i].time_ms <= f.subtitles[i + 1].time_ms

\* the words of a transcription whose lowercase alphanumeric form is in the
\* lexicon
Hits(words) ==
    SelectSeq(words, LAMBDA w :
        SelectSeq([k \in 1..Len(w.word) |-> LowerChar(w.word[k])], IsAlnum) \in Lexicon)

\* the cue c carries the timing, confidence and source of the transcribed
\* word w shifted by the video offset
CueOfWord(c, w, video_offset) ==
    /\ c.start_ms = (IF w.start_ms - 50 + video_offset > 0
                     THEN w.start_ms - 50 + video_offset ELSE 0)
    /\ c.end_ms = w.end_ms + 50 + video_offset
    /\ c.confidence = w.confidence
    /\ c.source = "whisper"

\* C17: a cue file generated from a transcription has exactly one cue for
\* every transcribed word whose cleaned form is in the lexicon, in order, and
\* none for any other word; the cue has start_ms = max(0, word.start_ms - 50
\* + video offset), end_ms = word.end_ms + 50 + video offset, the
\* transcriber's confidence, source "whisper", action "mute" and a category.
C17_CueEmission ==
    \A f \in prec_files : f.kind = "opencue" =>
        /\ Len(f.cues) = Len(Hits(f.transcription))
        /\ \A i \in 1..Len(f.cues) :
               /\ CueOfWord(f.cues[i], Hits(f.transcription)[i], f.video_start_position_ms)
               /\ "action" \in DOMAIN f.cues[i]
               /\ f.cues[i].action = "mute"
               /\ "category" \in DOMAIN f.cues[i]

\* the files of the given kind
FilesOf(files, kind) == {f \in files : f.kind = kind}

\* the recording a stop request for recording_id (0: none named) works on
StopTarget(recording_id) == IF recording_id # 0 THEN recording_id ELSE recorder.active

\* C18: a stop of a recording with no captured chunk answers with a failure
\* that carries an error, marks the recording failed and writes no file; a
\* stop whose transcriber raises answers with a failure, writes no cue file,
\* and when save_audio is set has written the audio file and returns its
\* path; after either the recorder has no active recording.
C18_StopFailure ==
    [][ \A recording_id \in 0..MaxRecordings, raises \in BOOLEAN, t \in Transcriptions :
          ( /\ StopPrecisionRecording(recording_id, raises, t)
            /\ StopTarget(recording_id) \in DOMAIN recorder.recordings ) =>
            LET rid == StopTarget(recording_id)
                state == recorder.recordings[rid]
                reply == sent'[1]
            IN /\ state.chunks = 0 =>
                     /\ ~reply.success
                     /\ reply.error # None
                     /\ recorder'.recordings[rid].status = "failed"
                     /\ prec_files' = prec_files
                     /\ recorder'.active = 0
               /\ (state.chunks > 0 /\ raises) =>
                     /\ ~reply.success
                     /\ FilesOf(prec_files', "opencue") = FilesOf(prec_files, "opencue")
                     /\ state.save_audio =>
                            /\ reply.audio_path # None
                            /\ \E f \in FilesOf(prec_files', "wav") :
                                   f.name = reply.audio_path /\ f.duration_ms = state.duration_ms
                     /\ recorder'.active = 0
      ]_vars

\* a stop has just failed in transcription with the audio file written,
\* after an earlier stop of a recording that had captured nothing
C18_Witness ==
    /\ Replies(sent, "precisionRecordingStopped") # {}
    /\ ~sent[1].success
    /\ sent[1].audio_path # None
    /\ FilesOf(prec_files, "wav") # {}
    /\ FilesOf(prec_files, "opencue") = {}
    /\ recorder.active = 0
    /\ \E r \in DOMAIN recorder.recordings :
           recorder.recordings[r].error = "No audio captured"

\* C19: a start request while a recording is active answers with a failure
\* that names the active recording and changes nothing in the recorder; a
\* start whose capture fails answers with a failure and leaves no active
\* recording; never more than one capture is running.
C19_SingleRecording ==
    [][ /\ \A v \in VideoStarts, save_audio, capture_ok \in BOOLEAN, rid \in 1..MaxRecordings :
              StartPrecisionRecording(TitleMovie, v, save_audio, capture_ok, TRUE, rid) =>
                  /\ recorder.active # 0 =>
                         /\ ~sent'[1].success
                         /\ sent'[1].recording_id = recorder.active
                         /\ UNCHANGED <<recorder, prec_files>>
                  /\ (recorder.active = 0 /\ ~capture_ok) =>
                         /\ ~sent'[1].success
                         /\ recorder'.active = 0
        /\ recorder'.captures <= 1
      ]_vars

\* a start request was just refused while a recording with a captured chunk
\* is active
C19_Witness ==
    /\ Replies(sent, "precisionRecordingStarted") # {}
    /\ ~sent[1].success
    /\ recorder.active # 0
    /\ sent[1].recording_id = recorder.active
    /\ recorder.recordings[recorder.active].chunks > 0
    /\ recorder.capture = "running"

\* no component holds a capture open: neither an audio engine's capture, the
\* precision recorder's capture or its envelope sampler
NoOpenCapture ==
    /\ \A e \in 1..Len(engines) : ~engines[e].capture_running
    /\ recorder.capture # "running"
    /\ ~recorder.volume_recorder

\* C20: once the client has disconnected, its session is gone and every
\* capture started for it (the audio engine's capture, the precision
\* recorder's capture and its envelope sampler) is eventually stopped.
C20_Teardown == ~connected ~> (~connected /\ NoOpenCapture)

\* C21: the capture queue never holds more than 100 chunks, and on every
\* backend the backpressure discards old chunks in favour of new ones: no
\* chunk that was discarded is newer than a chunk still in the queue.
C21_Backpressure ==
    /\ Len(capture.queue) <= QUEUE_MAXSIZE
    /\ \A d \in capture.dropped : \A i \in 1..Len(capture.queue) : capture.queue[i] > d

\* C22: once stop has returned (and the capture was not started again) the
\* capture is not running and its queue is empty, so get_audio_chunk returns
\* nothing.
C22_StopDrains ==
    capture.stop = "returned" => (~capture.running /\ capture.queue = <<>>)

\* the advisor call timed out, failed, answered with another status than
\* 200, or answered with something that holds no parseable JSON object
AdvisorFailed(reply) ==
    \/ reply.outcome # "ok"
    \/ ~JsonLoads[reply.text].ok

\* the detection was handed to the advisor
AdvisorAsked(a) ==
    /\ a.category = "language.blasphemy"
    /\ a.llm_available
    /\ a.ollama_ok
    /\ ~ \E p \in ExclamatoryPatterns : Contains(Lower(a.text), p)

\* C23: whenever the advisor call times out, fails, returns a non-success
\* status or a reply that cannot be parsed as a JSON object, the detection
\* is kept: an overlay is emitted for it.
C23_SafeDefault ==
    (advisor.done /\ AdvisorAsked(advisor) /\ AdvisorFailed(advisor.reply)) => advisor.emitted

\* C24: a load by a file's stem returns the data that add_cue_file last
\* wrote under that name, cues in the same order, whatever loads, writes and
\* index refreshes came before.
C24_RoundTrip ==
    (catalogue.op = "load" /\ catalogue.written[catalogue.name] # NoData) =>
        catalogue.result = catalogue.written[catalogue.name]

\* this step is a call of SubtitleSyncEngine.process_subtitle, whose
\* arguments and result are in sent'
ProcessedSubtitle == sent' # <<>> /\ sent'[1].type = "SyncResult"

\* the search of process_subtitle finds nothing for a text that is long
\* enough to be searched
NoMatchFor(eng, text, video_time_ms) ==
    /\ Len(text) >= MIN_SUBTITLE_LENGTH
    /\ ~_find_subtitle_match(eng, NormalizeText(text), video_time_ms).found

\* C25 as stated: a synced engine stays synced whatever subtitle it is given,
\* and a subtitle without a match more than 30 s after the last match lowers
\* the confidence by 0.1 and leaves synced and offset_ms alone.
C25_DecayAlways ==
    [][ (ProcessedSubtitle /\ subtitle_sync_engine.synced) =>
              /\ subtitle_sync_engine'.synced
              /\ ( /\ NoMatchFor(subtitle_sync_engine, sent'[1].text, sent'[1].video_time_ms)
                   /\ sent'[1].stale ) =>
                     /\ subtitle_sync_engine'.confidence = subtitle_sync_engine.confidence - 10
                     /\ subtitle_sync_engine'.offset_ms = subtitle_sync_engine.offset_ms
      ]_vars

\* C25, amended: a synced engine stays synced whatever subtitle it is given,
\* and a subtitle without a match more than 30 s after the last match lowers
\* the confidence by 0.1, but not below 0.3, and leaves synced and offset_ms
\* alone.
C25_StaysSynced ==
    [][ (ProcessedSubtitle /\ subtitle_sync_engine.synced) =>
              /\ subtitle_sync_engine'.synced
              /\ ( /\ NoMatchFor(subtitle_sync_engine, sent'[1].text, sent'[1].video_time_ms)
                   /\ sent'[1].stale ) =>
                     /\ subtitle_sync_engine'.confidence =
                            Max(30, subtitle_sync_engine.confidence - 10)
                     /\ subtitle_sync_engine'.offset_ms = subtitle_sync_engine.offset_ms
      ]_vars

\* a synced engine has just been given a subtitle without a match and its
\* confidence has come down to 0.3
C25_Witness ==
    /\ sent # <<>>
    /\ sent[1].type = "SyncResult"
    /\ sent[1].method = "no_match"
    /\ subtitle_sync_engine.synced
    /\ sent[1].stale
    /\ subtitle_sync_engine.confidence = 30
    /\ subtitle_sync_engine.match_history # <<>>

\* the lower median of the distances between the offsets and the stable
\* offset
MedianResidual(offsets, stable) ==
    LET residuals == Sorted([i \in 1..Len(offsets) |-> Abs(offsets[i] - stable)])
    IN residuals[(Len(residuals) + 1) \div 2]

\* C26: whenever the engine is synced, the median distance between the last
\* five offsets of match_history and the stable offset is at most 2000 ms.
C26_MedianResidual ==
    (subtitle_sync_engine.synced /\ subtitle_sync_engine.match_history # <<>>) =>
        MedianResidual(LastN(subtitle_sync_engine.match_history, 5),
                       subtitle_sync_engine.offset_ms) <= OFFSET_TOLERANCE_MS

\* a >= b for fractions with positive denominators
FracGE(a, b) == a[1] * b[2] >= b[1] * a[2]

\* the markers of the engine's file inside the search window of this call
MarkersInWindow(eng, video_time_ms) ==
    LET subs == Catalogue[eng.file].subtitles
        lo == IF eng.synced THEN video_time_ms + eng.offset_ms - 10000
              ELSE Max(0, video_time_ms - 120000)
        hi == IF eng.synced THEN video_time_ms + eng.offset_ms + 10000
              ELSE video_time_ms + 120000
    IN {i \in 1..Len(subs) : lo <= subs[i].time_ms /\ subs[i].time_ms <= hi}

\* the word-set similarity of the live text and marker i
MarkerScore(eng, text, i) ==
    TextSimilarity(NormalizeText(text), NormalizeText(Catalogue[eng.file].subtitles[i].text))

\* the first of the markers in the window with the highest similarity
TopMarker(eng, text, video_time_ms) ==
    LET cand == MarkersInWindow(eng, video_time_ms)
    IN CHOOSE i \in cand :
          \A j \in cand : /\ FracGE(MarkerScore(eng, text, i), MarkerScore(eng, text, j))
                          /\ (j < i => ~FracGE(MarkerScore(eng, text, j),
                                               MarkerScore(eng, text, i)))

\* no cue of the engine's file has a word that occurs in the text
NoCueWord(eng, text) ==
    \A k \in 1..Len(Catalogue[eng.file].cues) :
        LET w == Lower(Catalogue[eng.file].cues[k].word)
        IN w = <<>> \/ ~Contains(NormalizeText(text), w)

\* C27: the marker in the search window with the highest similarity to the
\* live text is taken as the match whenever that similarity is at least 0.6
\* (0.6 included): its offset enters match_history; below 0.6 no marker is
\* matched.
C27_Threshold ==
    [][ ( /\ ProcessedSubtitle
          /\ Len(sent'[1].text) >= MIN_SUBTITLE_LENGTH
          /\ MarkersInWindow(subtitle_sync_engine, sent'[1].video_time_ms) # {} ) =>
              LET eng == subtitle_sync_engine
                  text == sent'[1].text
                  t == sent'[1].video_time_ms
                  i == TopMarker(eng, text, t)
              IN IF FracGE(MarkerScore(eng, text, i), <<6, 10>>)
                 THEN subtitle_sync_engine'.match_history =
                          HistoryAppend(eng.match_history,
                                        Catalogue[eng.file].subtitles[i].time_ms - t)
                 ELSE NoCueWord(eng, text) =>
                          subtitle_sync_engine'.match_history = eng.match_history
      ]_vars

\* C28: a live subtitle whose normalised form is empty leaves match_history,
\* synced and offset_ms as they were, for every cue file and engine state;
\* match_history never holds more than 10 offsets.
C28_EmptyNormalised ==
    [][ /\ (ProcessedSubtitle /\ NormalizeText(sent'[1].text) = <<>>) =>
                  /\ subtitle_sync_engine'.match_history = subtitle_sync_engine.match_history
                  /\ subtitle_sync_engine'.synced = subtitle_sync_engine.synced
                  /\ subtitle_sync_engine'.offset_ms = subtitle_sync_engine.offset_ms
        /\ Len(subtitle_sync_engine'.match_history) <= HISTORY_SIZE
      ]_vars

\* an engine for the file whose cue has no word, synced and with a full
\* history, has just been given a subtitle that normalises to nothing
C28_Witness ==
    /\ sent # <<>>
    /\ sent[1].type = "SyncResult"
    /\ sent[1].text = TxtPunct
    /\ Len(TxtPunct) >= MIN_SUBTITLE_LENGTH
    /\ NormalizeText(TxtPunct) = <<>>
    /\ subtitle_sync_engine.file = "noword"
    /\ subtitle_sync_engine.synced
    /\ Len(subtitle_sync_engine.match_history) = HISTORY_SIZE

\* the cue file has neither subtitle markers nor fingerprint markers
TimestampOnly(file) ==
    /\ _load_cue_file(file).found
    /\ _load_cue_file(file).subtitles = <<>>
    /\ ~_load_cue_file(file).has_markers

\* C29: when the loaded cue file has neither subtitle markers nor
\* fingerprints, a position update at position_ms starts no cue with
\* position_ms + 200 < start_ms.
C29_TimestampLookahead ==
    [][ \A k \in 1..Len(tasks) : TaskRan(k) =>
            LET file == IF tasks[k].next = 0 THEN cue_file_id ELSE tasks[k].file
            IN TimestampOnly(file) =>
                   \A cue \in EvaluatedBy(k) :
                       (cue.id \notin triggered_cues /\ cue.id \in triggered_cues')
                           => cue.start_ms <= tasks[k].position_ms + 200
      ]_vars

\* the interval of the detected word inside the subtitle
WordStart(t) == t.start_ms + Trunc((t.end_ms - t.start_ms) * t.char_start, t.text_len)
WordEnd(t) == t.start_ms + Trunc((t.end_ms - t.start_ms) * t.char_end, t.text_len)

\* C30: for every subtitle interval [s, e] with 0 <= s <= e and every
\* detected span inside the text, the overlay starts at 0 or later and
\* lasts at least 400 ms; when the padded interval (400 ms before the word,
\* not before 0, to 150 ms after it) is shorter than 400 ms, the overlay is
\* the 400 ms interval centred on the midpoint of the word's interval.
C30_MinDuration ==
    (timing.done /\ timing # NoTiming) =>
        LET center == (WordStart(timing) + WordEnd(timing)) \div 2
            padded == (WordEnd(timing) + 150) - Max(0, WordStart(timing) - 400)
        IN /\ timing.overlay.start_ms >= 0
           /\ timing.overlay.end_ms - timing.overlay.start_ms >= 400
           /\ padded < 400 =>
                  /\ timing.overlay.start_ms = center - 200
                  /\ timing.overlay.end_ms = center + 200

\* 1 - (differing bits) / (32 x common length) over the two fingerprints cut
\* to their common length in words, as a fraction
Similarity(fp1, fp2) ==
    LET n == Min(Len(fp1), Len(fp2)) \div 4
        diff == Sum([i \in 1..(4 * n) |-> BitDiff(fp1[i], fp2[i])])
    IN IF n = 0 THEN <<0, 1>> ELSE <<32 * n - diff, 32 * n>>

\* C31: match returns the marker with the highest similarity among those
\* whose similarity is above the threshold, the one with the earliest time_ms
\* when several share the highest similarity, and none when no marker is
\* above the threshold (an empty list included).
C31_BestMatch ==
    (matcher.op = "match" /\ matcher.done /\ matcher.available /\ matcher.live_fp # <<>>) =>
        LET ms == matcher.markers
            sim(i) == Similarity(matcher.live_fp, ms[i].fingerprint)
            above == {i \in 1..Len(ms) : FracGT(sim(i), matcher.threshold)}
            top == {i \in above : \A j \in above : FracGE(sim(i), sim(j))}
        IN IF above = {} THEN ~matcher.result.found
           ELSE /\ matcher.result.found
                /\ \E i \in top :
                      /\ matcher.result.time_ms = ms[i].time_ms
                      /\ \A j \in top : ms[i].time_ms <= ms[j].time_ms
                      /\ FracGE(matcher.result.score, sim(i))
                      /\ FracGE(sim(i), matcher.result.score)

\* the sequence s without the elements at the indices in drop
RECURSIVE Without(_, _)
Without(s, drop) ==
    IF s = <<>> THEN <<>>
    ELSE Without(SubSeq(s, 1, Len(s) - 1), drop)
         \o (IF Len(s) \in drop THEN <<>> ELSE <<s[Len(s)]>>)

\* C32: for a reference sequence and an offset, the score over a live
\* sequence is never lower than the score over the live sequence with some
\* of its signatures removed.
C32_Monotone ==
    (matcher.op = "score" /\ matcher.done) =>
        \A drop \in SUBSET (1..Len(matcher.live)) :
            _score_alignment(matcher.reference, Without(matcher.live, drop),
                             matcher.offset_ms) <= matcher.result

\* C33: no two cues of recorded_cues share an id, and so no two cues of a
\* cue file sealed by stopRecording do, whatever the sequence of start,
\* pause, resume, stop and appends.
C33_UniqueIds ==
    /\ \A i, j \in 1..Len(recorded_cues) :
           recorded_cues[i].id = recorded_cues[j].id => i = j
    /\ \A f \in cue_dir : \A i, j \in 1..Len(f.cues) :
           f.cues[i].id = f.cues[j].id => i = j

\* a file with the two cues or more of recorded_cues has just been sealed
C33_Witness ==
    /\ Replies(sent, "recordingStopped") # {}
    /\ \E f \in cue_dir : /\ Len(f.cues) >= 2
                          /\ f.cues = recorded_cues

\* the cue file has subtitle markers
HasSubtitleMarkers(file) ==
    /\ _load_cue_file(file).found
    /\ _load_cue_file(file).subtitles # <<>>

\* C34: a cue of a file with subtitle markers is started only once the
\* subtitle sync is established: the session is synced and its engine has an
\* offset; while the session is syncing no position update adds a cue to
\* triggered_cues.
C34_NoStartBeforeSync ==
    [][ \A k \in 1..Len(tasks) : TaskRan(k) =>
            LET file == IF tasks[k].next = 0 THEN cue_file_id ELSE tasks[k].file
            IN (HasSubtitleMarkers(file) /\ triggered_cues' # triggered_cues) =>
                   /\ synced
                   /\ subtitle_sync_engine # NoSubtitleEngine
                   /\ subtitle_sync_engine.synced
      ]_vars

\* C35: in every state of a session every active cue id is in triggered_cues.
C35_ActiveTriggered == ActiveIds(active_cues) \subseteq triggered_cues

\* C36: the only audio sync engine of a session whose capture runs is the
\* session's current engine, and none runs once the session is in realtime
\* or recording mode: an engine replaced by a load or a mode change has been
\* stopped by the time the new state is in effect.
C36_OneEngine ==
    connected =>
        /\ \A e \in 1..Len(engines) : engines[e].capture_running => sync_engine = e
        /\ mode \in {"realtime", "recording"} =>
               \A e \in 1..Len(engines) : ~engines[e].capture_running

\* this step answered a stop or abort request that named the recording rid
NamedRequest(rid) ==
    /\ sent' # <<>>
    /\ sent'[1].type \in {"precisionRecordingStopped", "precisionRecordingAborted"}
    /\ sent'[1].recording_id = rid

\* C37: a stop or abort request that names a recording other than the
\* active one leaves the active recording as it is: it stays the active
\* recording, its capture keeps running and its chunks are unchanged.
C37_NamedOnly ==
    [][ \A rid \in DOMAIN recorder.recordings :
            (NamedRequest(rid) /\ recorder.active # 0 /\ rid # recorder.active) =>
                /\ recorder'.active = recorder.active
                /\ recorder'.capture = recorder.capture
                /\ recorder'.recordings[recorder.active] = recorder.recordings[recorder.active]
      ]_vars

\* C38: when stop_recording hands the concatenated chunks of a recording to
\* the transcriber, they include every chunk that the capture thread had
\* queued when stop_recording was called (the chunks are numbered in the
\* order they are queued and collected in that order, none is dropped by
\* backpressure here).
C38_NoChunkLost ==
    (/\ sent # <<>>
     /\ sent[1].type = "precisionRecordingStopped"
     /\ capture.stop = "returned") =>
        recorder.recordings[sent[1].recording_id].chunks >= capture.enqueued_at_stop

\* C39: while the loaded cue file is the one the precision recorder wrote and
\* the client is connected, a step that marks a cue triggered sends the
\* overlay message of that cue.
C39_OverlaySent ==
    [][\A c \in CueIds :
          (/\ connected
           /\ cue_file_id = RecordedCueFileId
           /\ c \in triggered_cues' \ triggered_cues) =>
              \E i \in 1..Len(sent') :
                  sent'[i].type = "overlay" /\ sent'[i].cue_id = c]_vars

\* the step answered a setMode or loadCueFile request with a failure
FailedRequest ==
    /\ sent' # <<>>
    /\ sent'[Len(sent')].type \in {"modeSet", "cueFileLoaded"}
    /\ ~sent'[Len(sent')].success

\* C40: a setMode or loadCueFile request that is answered with a failure
\* leaves the session's mode, cue_file_id, triggered_cues, active_cues and
\* sync engines as they were.
C40_FailureUnchanged ==
    [][FailedRequest =>
          UNCHANGED <<mode, cue_file_id, triggered_cues, active_cues,
                      sync_engine, engines, subtitle_sync_engine>>]_vars

====
